---- MODULE Spec2Model ----
(***************************************************************************)
(* Model of the SKL audio virtio backend service (skl-virtio-be.c) and of  *)
(* the parts of the frontend driver (skl-virtio-fe.c) it talks to.         *)
(*                                                                         *)
(* Three specifications share one state:                                   *)
(*   Spec      the backend PCM message handlers and the session registry   *)
(*   SpecNot   the backend notification push path and its pending queue    *)
(*   SpecKctl  the backend mixer-control message handler                   *)
(*                                                                         *)
(* The PCM and KCTL handlers run on behalf of an attached frontend, so the *)
(* client list holds at least one client in every state modelled here.     *)
(***************************************************************************)
EXTENDS Integers, Sequences, FiniteSets, TLC

\* --------------------------------------------------------------- bounds
\* Number of PCM messages the backend handles in one behaviour.
MaxPcmMsgs == 3
\* Number of notifications the backend submits in one behaviour.
MaxNotis == 4
\* Number of inbox buffers the frontend owns (VFE_MSG_BUFF_NUM in the driver).
MaxInbox == 2
\* Number of KCTL messages the backend handles in one behaviour.
MaxKctlMsgs == 3

\* ------------------------------------------------------- errno values
EBADF == -9
EIO == -5
ENOMEM == -12
EACCES == -13
EBUSY == -16
ENODEV == -19
EINVAL == -22

\* ------------------------------------------------ card and topology
\* PCMs found on the card's rtd_list.
CardPcms == {"pcm1", "pcm2"}
\* SNDRV_PCM_STREAM_PLAYBACK, SNDRV_PCM_STREAM_CAPTURE.
Directions == {0, 1}
Streams == CardPcms \X Directions
\* pcm ids a frontend can put into an envelope.
MsgPcmIds == CardPcms \cup {"pcmX", "", "((null))"}
\* Domain ids a frontend can put into an envelope.
DomainIds == {1, 2}
\* vm ids of the clients the backend can have registered.
Clients == {1, 2}

\* skl_tplg_fe_get_cpr_module(rtd->cpu_dai, direction): the copier module
\* of the stream, "none" when the topology has no module for it.
NoModule == [found |-> FALSE, domain_id |-> 0]

skl_tplg_fe_get_cpr_module(pcm_id, direction) ==
    CASE pcm_id = "pcm1" /\ direction = 0 -> [found |-> TRUE, domain_id |-> 1]
      [] pcm_id = "pcm1" /\ direction = 1 -> [found |-> TRUE, domain_id |-> 2]
      [] OTHER -> NoModule

\* ------------------------------------------------ address translation
PAGE_SIZE == 4096
\* Pages of a substream's scatter-gather DMA buffer.
SgPages == 2
\* Guest-physical DMA buffer addresses a frontend can send.
GpaMapped == 5 * PAGE_SIZE + 64
GpaUnmapped == 9 * PAGE_SIZE
DmaGpas == {GpaMapped, GpaUnmapped}
\* Guest-physical Position Descriptor addresses a frontend can send.
PosMapped == 7 * PAGE_SIZE
PosUnmapped == 11 * PAGE_SIZE
PosGpas == {PosMapped, PosUnmapped}
NULL == 0

\* vhm_vm_gpa2hpa: 0 when the guest address has no host mapping.
vhm_vm_gpa2hpa(vm_id, gpa) ==
    IF gpa = GpaMapped THEN 20 * PAGE_SIZE + 64 ELSE 0

\* map_guest_phys: NULL when the region cannot be mapped.
map_guest_phys(vm_id, gpa, size) ==
    IF gpa = PosMapped THEN 30 * PAGE_SIZE ELSE NULL

\* x & ~(u64)0xfff
PageMask(addr) == addr - (addr % PAGE_SIZE)

\* The native scatter table of a substream's preallocated DMA buffer.
NativeTable(s) ==
    LET base == IF s[1] = "pcm1" THEN 40 * PAGE_SIZE ELSE 50 * PAGE_SIZE
    IN  [cnt \in 1..SgPages |-> base + (s[2] * SgPages + cnt - 1) * PAGE_SIZE]

\* ------------------------------------------------------------ state
VARIABLES
    client_list,        \* vbe->client_list: sequence of client (vm) ids
    substr_info_list,   \* client->substr_info_list per client: sequence of vbe_substream_info
    substream,          \* pcm->streams[direction].substream per stream
    pcm_reply,          \* outcome of the last PCM message handled
    pcm_msgs,           \* number of PCM messages handled
    pcm_fe_ret,         \* what the frontend operation that sent the last PCM message returns
    pending_msg_list,   \* vbe->pending_msg_list
    not_rx_avail,       \* NOT_RX vq: buffers posted by the frontend (iov_len of each)
    not_rx_used,        \* NOT_RX vq: buffers filled by the backend, not yet drained
    not_rx_kick,        \* a frontend kick of the NOT_RX vq is waiting for the backend
    inbox_seen,         \* notifications drained by the frontend, in order
    inbox_free,         \* inbox buffers the frontend has not posted yet
    noti_sent,          \* number of notifications submitted by the backend
    enqueue_log,        \* history: ids saved on the pending queue, in order
    send_result,        \* outcome of the last vbe_send_kctl_msg
    kctl_value,         \* value of each mixer control
    kctl_reply,         \* outcome of the last KCTL message handled
    kctl_msgs,          \* number of KCTL messages handled
    fe_msg,             \* every vfe_msg the frontend allocated, by id
    not_tx_avail,       \* NOT_TX vq: requests posted by the frontend, not yet handled
    not_tx_used,        \* NOT_TX vq: requests completed by the backend, not yet drained
    expired_msg_list,   \* vfe->expired_msg_list
    tx_loop_msg,        \* vfe_tx_message_loop: message taken with status read as normal
    timeout_work,       \* vfe_not_tx_timeout_handler: message being compensated
    vfe_substr_info,    \* frontend vfe_substream_info of the stream: open, running
    send_call,          \* the frontend call in progress and its vfe_send_msg attempts
    vfe_pos_desc,       \* vfe_stream_pos_desc of each frontend stream (shared memory)
    pos_info,           \* frontend vfe_substream_info of each stream: open, running
    be_pos_desc,        \* backend substr_info->pos_desc of each stream is mapped
    be_update,          \* skl_notify_stream_update in progress
    cmd_rx_irq,         \* an interrupt of the CMD_RX vq is pending at the frontend
    rx_handler,         \* vfe_cmd_handle_rx in progress
    prepare_call,       \* vfe_pcm_prepare in progress
    pos_count,          \* updates and Prepare calls so far
    be_not_tx,          \* backend side of the NOT_TX vq and vbe_skl_ipc_fe_not_get
    client_tplg,        \* client->tplg of the first client: the topology it was given
    res_req,            \* vfe_request_ext_resource in progress, and its counts
    list_access,        \* list_add_tail and list_del in progress on the two unlocked lists
    posn_work,          \* update_work items pending on posn_update_queue, streams in xrun
    irq_close,          \* skl_notify_stream_update against vbe_skl_pcm_close of a stream
    desc_retry          \* vfe_send_msg_retry of Descriptor requests and their destination regions

pcm_vars == <<client_list, substr_info_list, substream, pcm_reply, pcm_msgs, pcm_fe_ret>>
not_vars == <<pending_msg_list, not_rx_avail, not_rx_used, not_rx_kick,
              inbox_seen, inbox_free, noti_sent, send_result, enqueue_log>>
kctl_vars == <<kctl_value, kctl_reply, kctl_msgs>>
req_vars == <<fe_msg, not_tx_avail, not_tx_used, expired_msg_list, tx_loop_msg,
              timeout_work, vfe_substr_info>>
pos_vars == <<vfe_pos_desc, pos_info, be_pos_desc, be_update, cmd_rx_irq, rx_handler,
              prepare_call, pos_count>>
late_vars == <<list_access, posn_work, irq_close, desc_retry>>
nonlist_late == <<posn_work, irq_close, desc_retry>>
nonwork_late == <<list_access, irq_close, desc_retry>>
nonirq_late == <<list_access, posn_work, desc_retry>>
nondesc_late == <<list_access, posn_work, irq_close>>
ext_vars == <<be_not_tx, client_tplg, res_req, late_vars>>
aux_vars == <<send_call, pos_vars, ext_vars>>
fe_vars == <<req_vars, aux_vars>>
vars == <<pcm_vars, not_vars, kctl_vars, fe_vars>>

\* ------------------------------------------------------ list helpers
\* list_add: insert at the head.
list_add(entry, list) == <<entry>> \o list
\* list_add_tail: insert at the tail.
list_add_tail(entry, list) == Append(list, entry)
\* list_del of the entry at position idx.
list_del(list, idx) ==
    [i \in 1..(Len(list) - 1) |-> IF i < idx THEN list[i] ELSE list[i + 1]]
\* list_first_entry_or_null(&vbe->client_list, ...)
list_first_entry_or_null(list) == IF Len(list) = 0 THEN NULL ELSE list[1]

\* ----------------------------------------------------- PCM lookups
\* Variant: a lookup that matches on the pcm id alone.
FindIgnoringDirection(infos, client, pcm_id, direction) ==
    LET hits == {i \in 1..Len(infos[client]) : infos[client][i].pcm = pcm_id}
    IN  IF hits = {} THEN 0 ELSE CHOOSE i \in hits : \A j \in hits : i <= j

\* vbe_find_substream_info_by_pcm: position of the first entry of the
\* client's list with that pcm id and direction, 0 when there is none.
vbe_find_substream_info_by_pcm(infos, client, pcm_id, direction) ==
    LET hits == {i \in 1..Len(infos[client]) :
                    /\ infos[client][i].direction = direction
                    /\ infos[client][i].pcm = pcm_id}
    IN  IF hits = {} THEN 0 ELSE CHOOSE i \in hits : \A j \in hits : i <= j

vbe_skl_is_valid_pcm_id(pcm_id) ==
    IF pcm_id = "" \/ pcm_id = "((null))" THEN EINVAL ELSE 0

\* A lookup by pcm id that found nothing.
NoPcm == "NULL"

\* The rtd of the card with that pcm id (named by its pcm); NoPcm when
\* there is none.
vbe_skl_find_rtd_by_pcm_id(pcm_name) ==
    IF vbe_skl_is_valid_pcm_id(pcm_name) < 0 THEN NoPcm
    ELSE IF pcm_name \in CardPcms THEN pcm_name ELSE NoPcm

vbe_skl_find_pcm_by_name(pcm_name) ==
    IF pcm_name = "" THEN NoPcm ELSE vbe_skl_find_rtd_by_pcm_id(pcm_name)

\* Returns [ret, domain_id].
vbe_skl_pcm_get_domain_id(pcm_id, direction) ==
    LET rtd == vbe_skl_find_rtd_by_pcm_id(pcm_id)
        mconfig == skl_tplg_fe_get_cpr_module(pcm_id, direction)
    IN  IF rtd = NoPcm THEN [domain_id |-> 0, ret |-> ENODEV]
        ELSE IF mconfig.found
             THEN [domain_id |-> mconfig.domain_id, ret |-> 0]
             ELSE [domain_id |-> 0, ret |-> EINVAL]

\* Variant: a permission check that resolves the owner but never compares.
PermissionIgnoresDomain(domain_id, pcm_id, direction) ==
    vbe_skl_pcm_get_domain_id(pcm_id, direction).ret

vbe_skl_pcm_check_permission(domain_id, pcm_id, direction) ==
    LET r == vbe_skl_pcm_get_domain_id(pcm_id, direction)
    IN  IF r.ret < 0 THEN r.ret
        ELSE IF domain_id # r.domain_id THEN EACCES
        ELSE r.ret
\* ------------------------------------------------------ PCM handlers
\* A handler takes the registry state st = [subs, infos] and returns
\* [st, ret, rx, ops]: the state it leaves, its return value, the status it
\* wrote into the reply payload (RxUnset when it wrote none) and the
\* audio-substream operations it invoked.
RxUnset == [ret |-> 0, written |-> FALSE]
Rx(ret) == [ret |-> ret, written |-> TRUE]

\* Return values of the external audio-substream operations.
OpsRets == {0, EIO}

\* vbe_skl_allocate_runtime: a fresh zeroed runtime replaces the old one.
vbe_skl_allocate_runtime(sub, alloc_ok) ==
    IF ~alloc_ok THEN [ret |-> ENOMEM, sub |-> sub]
    ELSE [ret |-> 0,
          sub |-> [sub EXCEPT !.runtime = TRUE, !.hw_params_set = FALSE,
                              !.dma_buf = FALSE]]

\* vbe_skl_add_substream_info: the new entry goes to the head of the list
\* of the first client of client_list.
vbe_skl_add_substream_info(infos, clients, s, alloc_ok) ==
    LET client == list_first_entry_or_null(clients)
        substr_info == [direction |-> s[2], pcm |-> s[1],
                        pos_desc |-> NULL, native_dma_addr |-> 0]
    IN  IF client = NULL THEN [infos |-> infos, ret |-> EINVAL]
        ELSE IF ~alloc_ok THEN [infos |-> infos, ret |-> ENOMEM]
        ELSE [infos |-> [infos EXCEPT ![client] = list_add(substr_info, @)],
              ret |-> 0]

\* Variant: an admission check that admits every Open.
NeverBusy(sub) == FALSE

\* The admission check of vbe_skl_pcm_open.
StreamBusy(sub) == sub.ref_count > 0

\* env = [runtime_ok, info_ok, ops_ret]: the outcome of the two allocations
\* and of rtd->ops.open.
vbe_skl_pcm_open(st, clients, msg, env) ==
    LET pcm == vbe_skl_find_pcm_by_name(msg.pcm_id)
        direction == msg.direction
        s == <<pcm, direction>>
        perm == vbe_skl_pcm_check_permission(msg.domain_id, msg.pcm_id,
                                             direction)
        rt == vbe_skl_allocate_runtime(st.subs[s], env.runtime_ok)
        add == vbe_skl_add_substream_info(st.infos, clients, s, env.info_ok)
        fail(ret, subs) ==
            [ret |-> ret, st |-> [st EXCEPT !.subs = subs], rx |-> Rx(ret),
             ops |-> <<>>]
    IN  IF pcm = NoPcm THEN fail(ENODEV, st.subs)
        ELSE IF perm < 0 THEN fail(perm, st.subs)
        ELSE IF StreamBusy(st.subs[s]) THEN fail(EBUSY, st.subs)
        ELSE IF rt.ret < 0 THEN fail(rt.ret, st.subs)
        ELSE IF add.ret < 0
             THEN fail(add.ret, [st.subs EXCEPT ![s] = rt.sub])
        ELSE [ret |-> env.ops_ret,
              st |-> [infos |-> add.infos,
                      subs |-> [st.subs EXCEPT ![s] =
                         [rt.sub EXCEPT !.ref_count = @ + 1,
                                        !.state = IF env.ops_ret = 0
                                                  THEN "OPENED" ELSE @]]], rx |-> Rx(env.ops_ret), ops |-> <<"open">>]

\* The scatter table vbe_skl_pcm_close and vbe_skl_prepare_dma write:
\* entry 0 gets addr, the others the pages that follow addr's page.
RemapTable(addr) ==
    [cnt \in 1..SgPages |->
        IF cnt = 1 THEN addr ELSE PageMask(addr) + (cnt - 1) * PAGE_SIZE]

\* vbe_skl_pcm_close of the entry at position idx of client's list.
vbe_skl_pcm_close(st, client, idx, msg, env) ==
    LET substr_info == st.infos[client][idx]
        s == <<substr_info.pcm, substr_info.direction>>
        sub == st.subs[s]
        table == IF sub.dma_buf THEN RemapTable(substr_info.native_dma_addr)
                 ELSE sub.table
    IN  [ret |-> env.ops_ret,
         st |-> [infos |-> [st.infos EXCEPT ![client] = list_del(@, idx)],
                 subs |-> [st.subs EXCEPT ![s] =
                    [sub EXCEPT !.table = table, !.ref_count = 0,
                                !.state = IF env.ops_ret = 0
                                          THEN "CLOSED" ELSE @]]],
         rx |-> IF msg.has_rx THEN Rx(env.ops_ret) ELSE RxUnset,
         ops |-> <<"close">>]

\* vbe_skl_prepare_dma: returns [ret, sub, info].
vbe_skl_prepare_dma(sub, substr_info, vm_id, dma_conf) ==
    LET pcm_buffer_hpa == vhm_vm_gpa2hpa(vm_id, dma_conf.dma_addr)
        pos_desc == map_guest_phys(vm_id, dma_conf.stream_pos_addr, 0)
        sub2 == [sub EXCEPT !.table = RemapTable(pcm_buffer_hpa)]
        info2 == [substr_info EXCEPT !.native_dma_addr = sub.table[1],
                                     !.pos_desc = pos_desc]
    IN  IF pcm_buffer_hpa = 0
        THEN [ret |-> EINVAL, sub |-> sub, info |-> substr_info]
        ELSE IF ~sub.dma_buf
        THEN [ret |-> EINVAL, sub |-> sub, info |-> substr_info]
        ELSE [ret |-> IF pos_desc = NULL THEN EINVAL ELSE 0,
              sub |-> sub2, info |-> info2]

vbe_skl_pcm_prepare(st, client, idx, msg, env) ==
    LET substr_info == st.infos[client][idx]
        s == <<substr_info.pcm, substr_info.direction>>
        dma == vbe_skl_prepare_dma(st.subs[s], substr_info, client, msg)
        st2 == [infos |-> [st.infos EXCEPT ![client][idx] = dma.info],
                subs |-> [st.subs EXCEPT ![s] = dma.sub]]
    IN  IF dma.ret < 0
        THEN [ret |-> dma.ret, st |-> st2, rx |-> RxUnset, ops |-> <<>>]
        ELSE [ret |-> env.ops_ret,
              st |-> [st2 EXCEPT !.subs[s].state =
                        IF env.ops_ret = 0 THEN "PREPARED" ELSE @], rx |-> Rx(env.ops_ret),
              ops |-> <<"prepare">>]

\* vbe_skl_pcm_hw_params: the runtime is initialised from the parameters
\* before rtd->ops.hw_params runs; a successful hw_params allocates the
\* DMA buffer of the runtime.
vbe_skl_pcm_hw_params(st, client, idx, msg, env) ==
    LET substr_info == st.infos[client][idx]
        s == <<substr_info.pcm, substr_info.direction>>
        ok == env.ops_ret = 0
    IN  [ret |-> env.ops_ret,
         st |-> [st EXCEPT !.subs[s] =
                    [@ EXCEPT !.hw_params_set = TRUE,
                              !.dma_buf = IF ok THEN TRUE ELSE @,
                              !.state = IF ok THEN "CONFIGURED" ELSE @]], rx |-> Rx(env.ops_ret),
         ops |-> <<"hw_params">>]

\* Trigger commands that leave the stream running (the others stop it).
TriggerCmds == {"START", "STOP"}

vbe_skl_pcm_trigger(st, client, idx, msg, env) ==
    LET substr_info == st.infos[client][idx]
        s == <<substr_info.pcm, substr_info.direction>>
        cmd == msg.trigger_cmd
    IN  [ret |-> env.ops_ret,
         st |-> [st EXCEPT !.subs[s].state =
                    IF env.ops_ret # 0 THEN @
                    ELSE IF cmd = "START" THEN "RUNNING" ELSE "PREPARED"], rx |-> RxUnset, ops |-> <<"trigger">>]
\* PCM opcodes of an envelope; VFE_MSG_PCM_OTHER stands for any PCM opcode
\* the switch of vbe_skl_msg_pcm_handle does not know.
PcmCmds == {"VFE_MSG_PCM_OPEN", "VFE_MSG_PCM_CLOSE", "VFE_MSG_PCM_PREPARE",
            "VFE_MSG_PCM_HW_PARAMS", "VFE_MSG_PCM_TRIGGER",
            "VFE_MSG_PCM_OTHER"}

vbe_skl_msg_pcm_handle(st, clients, msg, env) ==
    LET client == list_first_entry_or_null(clients)
        idx == vbe_find_substream_info_by_pcm(st.infos, client, msg.pcm_id,
                                              msg.direction)
        reject(ret) == [ret |-> ret, st |-> st, rx |-> RxUnset, ops |-> <<>>]
    IN  IF client = NULL THEN reject(EINVAL)
        ELSE IF msg.cmd = "VFE_MSG_PCM_OPEN"
             THEN vbe_skl_pcm_open(st, clients, msg, env)
        ELSE IF idx = 0 THEN reject(ENODEV)
        ELSE CASE msg.cmd = "VFE_MSG_PCM_CLOSE" ->
                    vbe_skl_pcm_close(st, client, idx, msg, env)
               [] msg.cmd = "VFE_MSG_PCM_PREPARE" ->
                    vbe_skl_pcm_prepare(st, client, idx, msg, env)
               [] msg.cmd = "VFE_MSG_PCM_HW_PARAMS" ->
                    vbe_skl_pcm_hw_params(st, client, idx, msg, env)
               [] msg.cmd = "VFE_MSG_PCM_TRIGGER" ->
                    vbe_skl_pcm_trigger(st, client, idx, msg, env)
               [] OTHER -> reject(0)

\* ------------------------------------------------------ PCM messages
\* sizeof of the tx payload of each PCM opcode, in abstract units: struct
\* vfe_pcm_hw_params, struct vfe_pcm_dma_conf, int, and struct
\* vfe_pcm_params for Open and Close; and sizeof(struct vfe_pcm_result),
\* the rx payload of all of them.
PcmSizeofTx(cmd) ==
    CASE cmd = "VFE_MSG_PCM_HW_PARAMS" -> 6
      [] cmd = "VFE_MSG_PCM_PREPARE" -> 4
      [] cmd = "VFE_MSG_PCM_TRIGGER" -> 1
      [] OTHER -> 2
SizeofPcmResult == 1

\* The envelope and tx payload of a PCM message as the frontend fills
\* them (vfe_fill_pcm_msg_header, vfe_pcm_prepare, vfe_pcm_trigger).
PcmMsg(cmd, domain_id, pcm_id, direction, dma_addr, pos_addr, trig) ==
    [domain_id |-> domain_id, pcm_id |-> pcm_id, direction |-> direction,
     has_rx |-> TRUE, dma_addr |-> dma_addr,
     stream_pos_addr |-> pos_addr, cmd |-> cmd, trigger_cmd |-> trig,
     tx_size |-> PcmSizeofTx(cmd), rx_size |-> SizeofPcmResult]

NoPcmMsg == PcmMsg("none", 0, "", 0, 0, 0, "STOP")

PcmEnv(runtime_ok, info_ok, ops_ret) ==
    [runtime_ok |-> runtime_ok, info_ok |-> info_ok, ops_ret |-> ops_ret]

\* What the environment of vbe_skl_pcm_open can do: everything succeeds, one
\* of the two allocations fails, or rtd->ops.open fails.
OpenEnvs == {PcmEnv(TRUE, TRUE, 0), PcmEnv(FALSE, TRUE, 0),
             PcmEnv(TRUE, FALSE, 0), PcmEnv(TRUE, TRUE, EIO)}
\* The environment of the other handlers: the outcome of rtd->ops.*.
OpsEnvs == {PcmEnv(TRUE, TRUE, o) : o \in OpsRets}

\* <<domain id, pcm id, direction>> of the envelopes: every domain on every
\* stream of the card, and one envelope for each pcm id the card lacks.
PcmTargets == (DomainIds \X {"pcm1"} \X Directions)
              \cup {<<1, p, 0>> : p \in MsgPcmIds \ {"pcm1"}}

\* DMA configurations of a Prepare: <<addr, stream_pos_addr>>.
DmaConfs == {<<GpaMapped, PosMapped>>, <<GpaUnmapped, PosMapped>>,
             <<GpaMapped, PosUnmapped>>}

\* What the vfe_pcm_result on the stack of a frontend operation holds
\* before the request is sent: -EIO in vfe_pcm_open, which initialises it;
\* whatever the stack held in the others, which do not.
RxInits(cmd) ==
    IF cmd = "VFE_MSG_PCM_OPEN" THEN {EIO} ELSE {0, EIO}

\* What vfe_pcm_open, vfe_pcm_close, vfe_pcm_hw_params and vfe_pcm_prepare
\* return when the reply arrived in time, vbe_result.ret, and what
\* vfe_pcm_trigger returns, the 0 of vfe_send_msg_with_timeout.
vfe_pcm_return(cmd, vbe_result) ==
    IF cmd = "VFE_MSG_PCM_TRIGGER" THEN 0 ELSE vbe_result

\* vfe_send_msg_with_timeout copies the caller's vbe_result into rx_buf
\* and vfe_tx_message_loop copies rx_buf back: the caller reads what the
\* backend wrote, or its own initial value when the backend wrote nothing.
ReplyAtCaller(rx_init, rx) == IF rx.written THEN rx.ret ELSE rx_init

\* not_tx_handler -> vbe_skl_ipc_fe_not_get -> vbe_skl_not_fwd for one PCM
\* message of the NOT_TX queue, and the return of the frontend operation
\* that sent it.
HandlePcm(msg, env) ==
    LET r == vbe_skl_msg_pcm_handle(
                [infos |-> substr_info_list, subs |-> substream],
                client_list, msg, env)
    IN  /\ pcm_msgs < MaxPcmMsgs
        /\ pcm_msgs' = pcm_msgs + 1
        /\ \E rx_init \in RxInits(msg.cmd) :
              pcm_fe_ret' = vfe_pcm_return(msg.cmd,
                                           ReplyAtCaller(rx_init, r.rx))
        /\ substream' = r.st.subs
        /\ substr_info_list' = r.st.infos
        /\ pcm_reply' = [ret |-> r.ret, msg |-> msg, rx |-> r.rx,
                         ops |-> r.ops]
        /\ UNCHANGED <<fe_vars, client_list, not_vars, kctl_vars>>

PcmOpen ==
    \E t \in PcmTargets, env \in OpenEnvs :
        HandlePcm(PcmMsg("VFE_MSG_PCM_OPEN", t[1], t[2], t[3], 0, 0, "STOP"),
                  env)

PcmClose ==
    \E t \in PcmTargets, env \in OpsEnvs :
        HandlePcm(PcmMsg("VFE_MSG_PCM_CLOSE", t[1], t[2], t[3], 0, 0, "STOP"),
                  env)

PcmHwParams ==
    \E t \in PcmTargets, env \in OpsEnvs :
        HandlePcm(PcmMsg("VFE_MSG_PCM_HW_PARAMS", t[1], t[2], t[3], 0, 0,
                         "STOP"), env)

PcmPrepare ==
    \E t \in PcmTargets, env \in OpsEnvs, c \in DmaConfs :
        HandlePcm(PcmMsg("VFE_MSG_PCM_PREPARE", t[1], t[2], t[3], c[1], c[2],
                         "STOP"), env)

PcmTrigger ==
    \E t \in PcmTargets, env \in OpsEnvs, c \in TriggerCmds :
        HandlePcm(PcmMsg("VFE_MSG_PCM_TRIGGER", t[1], t[2], t[3], 0, 0, c),
                  env)

\* A HwParams, Prepare or Trigger whose tx buffer is shorter than the
\* payload of the opcode.
PcmShortPayload ==
    \E t \in PcmTargets, env \in OpsEnvs,
       cmd \in {"VFE_MSG_PCM_HW_PARAMS", "VFE_MSG_PCM_PREPARE",
                "VFE_MSG_PCM_TRIGGER"} :
        HandlePcm([PcmMsg(cmd, t[1], t[2], t[3], GpaMapped, PosMapped,
                          "START") EXCEPT !.tx_size = @ - 1], env)

PcmOther ==
    \E t \in PcmTargets :
        HandlePcm(PcmMsg("VFE_MSG_PCM_OTHER", t[1], t[2], t[3], 0, 0, "STOP"),
                  PcmEnv(TRUE, TRUE, 0))

\* The registry after the backend is constructed and its clients attached.
InitPcm ==
    /\ client_list \in {<<1>>, <<2, 1>>}
    /\ substr_info_list = [c \in Clients |-> <<>>]
    /\ substream = [s \in Streams |->
                      [runtime |-> FALSE, hw_params_set |-> FALSE,
                       dma_buf |-> FALSE, ref_count |-> 0,
                       state |-> "CLOSED", table |-> NativeTable(s)]]
    /\ pcm_reply = [ret |-> 0, msg |-> NoPcmMsg, rx |-> RxUnset, ops |-> <<>>]
    /\ pcm_msgs = 0
    /\ pcm_fe_ret = 0
\* ------------------------------------------- notification push path
\* sizeof(struct vfe_kctl_noti), in abstract units.
SizeofKctlNoti == 2
\* iov_len of the inbox buffers a frontend can post: sizeof(union
\* inbox_msg) as vfe_put_inbox_buffer posts it, and a buffer too short.
InboxMsgSize == SizeofKctlNoti
BufLens == {InboxMsgSize, InboxMsgSize - 1}

\* Control values of the model, and the kcontrol changes (control, new
\* value) the backend reports to the frontend.
KctlValues == {0, 1}
KctlChanges == {<<"Speaker Switch", 1>>, <<"Mic Gain", 0>>}

\* vbe_skl_try_send on vq = [avail, used]: returns [sent, vq].  The chain
\* is released once, and once more before the copy when it is too short.
vbe_skl_try_send(vq, buff, size) ==
    IF Len(vq.avail) > 0
    THEN LET iov_len == Head(vq.avail)
             entry == [msg |-> buff, iov_len |-> iov_len, copied |-> size,
                       relchains |-> IF iov_len < size THEN 2 ELSE 1]
         IN  [vq |-> [avail |-> Tail(vq.avail),
                      used |-> Append(vq.used, entry)],
              sent |-> TRUE]
    ELSE [vq |-> vq, sent |-> FALSE]

\* Variant: saving at the head of the pending list.
SaveAtHead(entry, list) == list_add(entry, list)

\* How vbe_skl_send_or_enqueue saves a message it could not send.
SavePending(entry, list) == list_add_tail(entry, list)

\* vbe_skl_send_or_enqueue on q = [pending, vq]: returns the new q.
vbe_skl_send_or_enqueue(q, pen_msg) ==
    LET r == vbe_skl_try_send(q.vq, pen_msg.msg, pen_msg.sizeof_msg)
    IN  IF r.sent = FALSE
        THEN [vq |-> q.vq, pending |-> SavePending(pen_msg, q.pending)]
        ELSE [vq |-> r.vq, pending |-> q.pending]

\* vbe_send_kctl_msg: returns [q, ret, result_ret].
vbe_send_kctl_msg(q, id, kcontrol, ucontrol) ==
    LET kctl_msg == [msg |-> [id |-> id, msg_type |-> "VFE_MSG_KCTL_SET",
                              kcontrol_id |-> kcontrol, value |-> ucontrol],
                     sizeof_msg |-> SizeofKctlNoti]
    IN  [ret |-> 0, q |-> vbe_skl_send_or_enqueue(q, kctl_msg),
         result_ret |-> 0]

\* Variant: a drain that takes the newest pending message first.
DrainFromTail(q) ==
    IF Len(q.pending) = 0 THEN q
    ELSE LET entry == q.pending[Len(q.pending)]
             r == vbe_skl_try_send(q.vq, entry.msg, entry.sizeof_msg)
         IN  IF r.sent
             THEN [vq |-> r.vq,
                   pending |-> SubSeq(q.pending, 1, Len(q.pending) - 1)]
             ELSE q

\* Variant: a drain that drops the entry whose submit failed.
RECURSIVE DrainDropsFailed(_)
DrainDropsFailed(q) ==
    IF Len(q.pending) = 0 THEN q
    ELSE LET entry == Head(q.pending)
             r == vbe_skl_try_send(q.vq, entry.msg, entry.sizeof_msg)
         IN  IF r.sent = TRUE
             THEN DrainDropsFailed([vq |-> r.vq, pending |-> Tail(q.pending)])
             ELSE [vq |-> q.vq, pending |-> Tail(q.pending)]

\* vbe_skl_ipc_fe_not_reply_get: send pending messages from the head until
\* one cannot be sent.
RECURSIVE vbe_skl_ipc_fe_not_reply_get(_)
vbe_skl_ipc_fe_not_reply_get(q) ==
    IF Len(q.pending) = 0 THEN q
    ELSE LET entry == Head(q.pending)
             r == vbe_skl_try_send(q.vq, entry.msg, entry.sizeof_msg)
         IN  IF r.sent = TRUE
             THEN vbe_skl_ipc_fe_not_reply_get(
                      [vq |-> r.vq, pending |-> Tail(q.pending)])
             ELSE q

NotQ == [vq |-> [avail |-> not_rx_avail, used |-> not_rx_used],
         pending |-> pending_msg_list]

\* A kcontrol change on the backend: vbe_send_kctl_msg.  enqueue_log records
\* the ids of the messages saved on the pending queue, in the order saved.
BeSendKctlMsg ==
    \E change \in KctlChanges :
        LET id == noti_sent + 1
            kcontrol == change[1]
            ucontrol == change[2]
            r == vbe_send_kctl_msg(NotQ, id, kcontrol, ucontrol)
        IN  /\ noti_sent < MaxNotis
            /\ noti_sent' = id
            /\ pending_msg_list' = r.q.pending
            /\ not_rx_avail' = r.q.vq.avail
            /\ not_rx_used' = r.q.vq.used
            /\ send_result' = [ret |-> r.ret, id |-> id,
                               kcontrol_id |-> kcontrol, value |-> ucontrol,
                               result_ret |-> r.result_ret]
            /\ enqueue_log' =
                   IF Len(r.q.pending) > Len(pending_msg_list)
                   THEN Append(enqueue_log, id) ELSE enqueue_log
            /\ UNCHANGED <<fe_vars, not_rx_kick, inbox_seen, inbox_free, pcm_vars,
                           kctl_vars>>

\* vbe_skl_handle_kick(SKL_VIRTIO_IPC_NOT_RX_VQ): the channel-ready signal.
BeHandleKickNotRx ==
    LET q == vbe_skl_ipc_fe_not_reply_get(NotQ)
    IN  /\ not_rx_kick
        /\ not_rx_kick' = FALSE
        /\ pending_msg_list' = q.pending
        /\ not_rx_avail' = q.vq.avail
        /\ not_rx_used' = q.vq.used
        /\ UNCHANGED <<fe_vars, inbox_seen, inbox_free, noti_sent, send_result,
                       enqueue_log, pcm_vars, kctl_vars>>

\* Variant: the buffer is posted twice.
PutInboxBufferTwice(avail, iov_len) == Append(Append(avail, iov_len), iov_len)

\* vfe_put_inbox_buffer: post a buffer on the NOT_RX queue and kick.
vfe_put_inbox_buffer(avail, iov_len) == Append(avail, iov_len)

\* vfe_send_queues: the frontend posts one of its inbox buffers at start-up.
FeSendQueues ==
    \E iov_len \in BufLens :
        /\ inbox_free > 0
        /\ inbox_free' = inbox_free - 1
        /\ not_rx_avail' = vfe_put_inbox_buffer(not_rx_avail, iov_len)
        /\ not_rx_kick' = TRUE
        /\ UNCHANGED <<fe_vars, pending_msg_list, not_rx_used, inbox_seen, noti_sent,
                       send_result, enqueue_log, pcm_vars, kctl_vars>>

\* One iteration of vfe_rx_message_loop: drain a filled buffer, handle the
\* notification, post the buffer again.
FeRxMessageLoop ==
    /\ Len(not_rx_used) > 0
    /\ inbox_seen' = Append(inbox_seen, Head(not_rx_used).msg.id)
    /\ not_rx_used' = Tail(not_rx_used)
    /\ not_rx_avail' = vfe_put_inbox_buffer(not_rx_avail,
                                            Head(not_rx_used).iov_len)
    /\ not_rx_kick' = TRUE
    /\ UNCHANGED <<fe_vars, pending_msg_list, inbox_free, noti_sent, send_result,
                       enqueue_log, pcm_vars, kctl_vars>>

\* vfe_send_queues posting a buffer of sizeof(union inbox_msg), the only
\* size the frontend's own code posts.
FeSendQueuesFull ==
    /\ FeSendQueues
    /\ not_rx_avail'[Len(not_rx_avail')] = InboxMsgSize

\* The device fills the first posted inbox buffer with a notification whose
\* msg_type vfe_rx_message_loop does not know.
DevicePushOtherType ==
    /\ not_rx_avail # <<>>
    /\ noti_sent < MaxNotis
    /\ LET id == noti_sent + 1
           iov_len == Head(not_rx_avail)
       IN  /\ noti_sent' = id
           /\ not_rx_avail' = Tail(not_rx_avail)
           /\ not_rx_used' = Append(not_rx_used,
                 [msg |-> [id |-> id, msg_type |-> "VFE_MSG_OTHER",
                           kcontrol_id |-> "", value |-> 0],
                  iov_len |-> iov_len, copied |-> iov_len, relchains |-> 1])
    /\ UNCHANGED <<fe_vars, pending_msg_list, not_rx_kick, inbox_seen,
                   inbox_free, send_result, enqueue_log, pcm_vars, kctl_vars>>

InitNot ==
    /\ pending_msg_list = <<>>
    /\ not_rx_avail = <<>>
    /\ not_rx_used = <<>>
    /\ not_rx_kick = FALSE
    /\ inbox_seen = <<>>
    /\ inbox_free = MaxInbox
    /\ noti_sent = 0
    /\ send_result = [ret |-> 0, id |-> 0, kcontrol_id |-> "",
                      value |-> 0, result_ret |-> 0]
    /\ enqueue_log = <<>>
\* ------------------------------------------------- mixer controls
\* kctl_domain_map: the static name -> domain table, in table order.
kctl_domain_map ==
    <<[name |-> "BtHfp_ssp0_in pcm cfg", domain_flag |-> 1],
      [name |-> "BtHfp_ssp0_out pcm cfg", domain_flag |-> 1],
      [name |-> "Speaker Switch", domain_flag |-> 1]>>

\* The mixer controls of the card.  priv tells what kcontrol->private_data
\* points at; widget names the DAPM widget that lists the control ("" when
\* no widget does).
CardKcontrols ==
    <<[name |-> "Speaker Switch", priv |-> "card", widget |-> ""],
      [name |-> "Mic Gain", priv |-> "widget", widget |-> "mic"],
      [name |-> "Master Volume", priv |-> "component", widget |-> ""],
      [name |-> "Loose Ctl", priv |-> "other", widget |-> ""],
      [name |-> "BtHfp_ssp0_out pcm cfg", priv |-> "other", widget |-> ""]>>

\* mconfig->kctl_domains of each widget, in list order.
WidgetKctlDomains(widget) ==
    IF widget = "mic"
    THEN <<[domain_id |-> 1, name |-> "Mic Boost"],
           [domain_id |-> 2, name |-> "Mic Gain"],
           [domain_id |-> 1, name |-> "Mic Gain"]>>
    ELSE <<>>

\* Variant: the last position of seq whose entry has that name.
LastNamed(seq, name) ==
    LET hits == {i \in 1..Len(seq) : seq[i].name = name}
    IN  IF hits = {} THEN 0 ELSE CHOOSE i \in hits : \A j \in hits : j <= i

\* First position of seq whose entry has that name, 0 when there is none.
FirstNamed(seq, name) ==
    LET hits == {i \in 1..Len(seq) : seq[i].name = name}
    IN  IF hits = {} THEN 0 ELSE CHOOSE i \in hits : \A j \in hits : i <= j

vbe_skl_kcontrol_find_domain_id(kcontrol, kctl_domains) ==
    LET i == FirstNamed(kctl_domains, kcontrol.name)
    IN  IF i = 0 THEN 0 ELSE kctl_domains[i].domain_id

vbe_skl_get_static_domain_id(ctl_name) ==
    LET i == FirstNamed(kctl_domain_map, ctl_name)
    IN  IF i = 0 THEN 0 ELSE kctl_domain_map[i].domain_flag

\* vbe_skl_find_kcontrol_widget: the widget that lists the control.
vbe_skl_find_kcontrol_widget(kcontrol) == kcontrol.widget

\* Variant: an owner lookup that consults the static map only.
StaticDomainOnly(kcontrol) ==
    [domain_id |-> vbe_skl_get_static_domain_id(kcontrol.name), ret |-> 0]

\* Returns [ret, domain_id].
vbe_skl_kcontrol_get_domain_id(kcontrol) ==
    LET w == vbe_skl_find_kcontrol_widget(kcontrol)
    IN  IF kcontrol.priv \in {"component", "card"}
        THEN [domain_id |-> vbe_skl_get_static_domain_id(kcontrol.name),
              ret |-> 0]
        ELSE IF w # ""
        THEN [domain_id |-> vbe_skl_kcontrol_find_domain_id(
                                kcontrol, WidgetKctlDomains(w)),
              ret |-> 0]
        ELSE [domain_id |-> 0, ret |-> 0]

\* kctl_ipc_handle: looks the control up by name, resolves its owning
\* domain through the get_domain_id operation and sets the value only for
\* the owning domain.  Returns [values, ret, rx].
kctl_ipc_handle(values, domain_id, kctl_desc, kcontrol_val) ==
    LET i == FirstNamed(CardKcontrols, kctl_desc.kcontrol_id)
        dom == vbe_skl_kcontrol_get_domain_id(CardKcontrols[i])
        done(vals, ret) == [ret |-> ret, rx |-> Rx(ret), values |-> vals]
    IN  IF i = 0 THEN done(values, ENODEV)
        ELSE IF dom.ret < 0 THEN done(values, dom.ret)
        ELSE IF dom.domain_id # domain_id THEN done(values, EACCES)
        ELSE done([values EXCEPT ![kctl_desc.kcontrol_id] = kcontrol_val], 0)

KctlCmds == {"VFE_MSG_KCTL_SET", "VFE_MSG_KCTL_OTHER"}

vbe_skl_msg_kcontrol_handle(values, msg) ==
    IF msg.cmd = "VFE_MSG_KCTL_SET"
    THEN kctl_ipc_handle(values, msg.domain_id, msg.desc, msg.tx_data)
    ELSE [ret |-> 0, rx |-> RxUnset, values |-> values]

CardKctlNames == {CardKcontrols[i].name : i \in 1..Len(CardKcontrols)}
MsgKctlNames == CardKctlNames \cup {"Unknown Ctl"}

KctlMsg(cmd, domain_id, name, value) ==
    [domain_id |-> domain_id, cmd |-> cmd, desc |-> [kcontrol_id |-> name],
     tx_data |-> value]

\* vbe_skl_not_fwd for one KCTL message of the NOT_TX queue.
HandleKctl(msg) ==
    LET r == vbe_skl_msg_kcontrol_handle(kctl_value, msg)
    IN  /\ kctl_msgs < MaxKctlMsgs
        /\ kctl_msgs' = kctl_msgs + 1
        /\ kctl_value' = r.values
        /\ kctl_reply' = [ret |-> r.ret, msg |-> msg, rx |-> r.rx]
        /\ UNCHANGED <<fe_vars, pcm_vars, not_vars>>

KctlSet ==
    \E d \in DomainIds, name \in MsgKctlNames, v \in KctlValues :
        HandleKctl(KctlMsg("VFE_MSG_KCTL_SET", d, name, v))

KctlOther ==
    \E d \in DomainIds, name \in MsgKctlNames, v \in KctlValues :
        HandleKctl(KctlMsg("VFE_MSG_KCTL_OTHER", d, name, v))

InitKctl ==
    /\ kctl_value \in [CardKctlNames -> {0}]
    /\ kctl_reply = [ret |-> 0, msg |-> KctlMsg("none", 0, "", 0),
                     rx |-> RxUnset]
    /\ kctl_msgs = 0

\* ------------------------------------------ frontend request path
\* At most this many vfe_msg are allocated in one behaviour.
MaxFeMsgs == 3

ETIMEDOUT == -110

\* The stream the frontend's calls are about, and the frontend's domain
\* (msg->header.domain_id of vfe_send_msg_with_timeout).
FePcmId == "pcm1"
FeDirection == 0
FeDomainId == 1

\* The commands of the frontend calls; anything that is not a PCM command
\* is VFE_MSG_KCTL_SET here.
FeCmds == {"VFE_MSG_PCM_OPEN", "VFE_MSG_PCM_CLOSE", "VFE_MSG_KCTL_SET"}
IsPcmCmd(cmd) == cmd \in PcmCmds

\* A vfe_msg as vfe_send_msg_with_timeout allocates it, with the caller's
\* frame it points into (rx_data, completed, waitq):
\*   status       msg->status, zeroed by kzalloc
\*   place        avail | used | loop | expired | freed
\*   caller       waiting | timer_expired | returned: where the caller is
\*                in vfe_wait_for_msg_response; its frame is gone once
\*                it returned
\*   rx_buf       vbe_result.ret in msg->rx_buf, rx_data the same in the
\*                caller's reply buffer
\*   late_writes  stores into the caller's frame after the caller returned
\*   uaf          the caller stored into the message after it was freed
\*   frees        kfree(msg) calls
\*   normal, expired, handled: times the reply was copied and the waiter
\*                woken, times the message was put on the expired list,
\*                times the timeout handler took it
VfeMsg(cmd, by, rx_init) ==
    [ret |-> 0, cmd |-> cmd, by |-> by, status |-> "VFE_MSG_NORMAL",
     place |-> "avail", caller |-> "waiting", completed |-> FALSE,
     rx_buf |-> rx_init, rx_data |-> rx_init, rx_copied |-> FALSE,
     late_writes |-> 0, uaf |-> FALSE, frees |-> 0, normal |-> 0,
     expired |-> 0, handled |-> 0]

\* vfe_send_msg_with_timeout up to the wait: the message is allocated and
\* posted on the NOT_TX queue (vfe_send_virtio_msg).
vfe_send_msg_with_timeout(msgs, avail, cmd, by, rx_init) ==
    [avail |-> Append(avail, Len(msgs) + 1),
     msgs |-> Append(msgs, VfeMsg(cmd, by, rx_init))]

\* Variant: the wait gives up without marking the message.
WaitWithoutMark(msg, timed_out) ==
    IF timed_out
    THEN [msg EXCEPT !.caller = "returned", !.ret = ETIMEDOUT]
    ELSE [msg EXCEPT !.caller = "returned", !.ret = 0]

\* vfe_wait_for_msg_response once wait_event_timeout returned: with 0 the
\* message is marked timed out and the call fails. The store is made
\* whether or not the message still exists; uaf records that it did not.
vfe_wait_for_msg_response(msg, timed_out) ==
    IF timed_out
    THEN [msg EXCEPT !.status = "VFE_MSG_TIMED_OUT",
                     !.uaf = (msg.place = "freed"),
                     !.caller = "returned", !.ret = ETIMEDOUT]
    ELSE [msg EXCEPT !.caller = "returned", !.ret = 0]

\* Variant: a timed-out message is put on the expired list and then
\* completed as well.
TxLoopFallsThrough(msg_status) ==
    IF msg_status = "VFE_MSG_TIMED_OUT" THEN {"expired", "normal"}
    ELSE {"normal"}

\* Variant: the loop completes every message and never looks at the status.
TxLoopIgnoresStatus(msg_status) == {"normal"}

\* The branch vfe_tx_message_loop takes for a drained message.
TxLoopPaths(msg_status) ==
    IF msg_status = "VFE_MSG_TIMED_OUT" THEN {"expired"} ELSE {"normal"}

\* Messages of open calls whose compensating Close may still be sent.
MayNeedClose(m) ==
    /\ m.cmd = "VFE_MSG_PCM_OPEN"
    /\ m.place \in {"avail", "used", "expired"}
    /\ m.handled = 0
Reserved == Cardinality({i \in 1..Len(fe_msg) : MayNeedClose(fe_msg[i])})
\* The calls come from one user thread: a call starts when the previous
\* one returned, and no more messages are allocated than the bound allows
\* with the compensations still to come.
Room(n) ==
    /\ Len(fe_msg) + Reserved + n <= MaxFeMsgs
    /\ \A i \in 1..Len(fe_msg) :
          fe_msg[i].by = "user" => fe_msg[i].caller = "returned"

\* vfe_pcm_open up to the wait.
FePcmOpen ==
    /\ Room(2)
    /\ LET s == vfe_send_msg_with_timeout(fe_msg, not_tx_avail,
                                          "VFE_MSG_PCM_OPEN", "user", EIO)
       IN  fe_msg' = s.msgs /\ not_tx_avail' = s.avail
    /\ UNCHANGED <<aux_vars, not_tx_used, expired_msg_list, tx_loop_msg, timeout_work,
                   vfe_substr_info, pcm_vars, not_vars, kctl_vars>>

\* vfe_pcm_close up to the wait.
FePcmClose ==
    /\ Room(1)
    /\ vfe_substr_info' = [vfe_substr_info EXCEPT !.open = FALSE]
    /\ LET s == vfe_send_msg_with_timeout(fe_msg, not_tx_avail,
                                          "VFE_MSG_PCM_CLOSE", "user", 0)
       IN  fe_msg' = s.msgs /\ not_tx_avail' = s.avail
    /\ UNCHANGED <<aux_vars, not_tx_used, expired_msg_list, tx_loop_msg, timeout_work,
                   pcm_vars, not_vars, kctl_vars>>

\* vfe_send_kctl_msg up to the wait.
FeKctlSet ==
    /\ Room(1)
    /\ LET s == vfe_send_msg_with_timeout(fe_msg, not_tx_avail,
                                          "VFE_MSG_KCTL_SET", "user", 0)
       IN  fe_msg' = s.msgs /\ not_tx_avail' = s.avail
    /\ UNCHANGED <<aux_vars, not_tx_used, expired_msg_list, tx_loop_msg, timeout_work,
                   vfe_substr_info, pcm_vars, not_vars, kctl_vars>>

\* vbe_skl_ipc_fe_not_get for the first request of the NOT_TX queue:
\* vbe_skl_not_fwd handles it and the chain is released to the frontend.
BeHandleNotTx ==
    /\ not_tx_avail # <<>>
    /\ LET id == Head(not_tx_avail)
           m == fe_msg[id]
       IN  /\ not_tx_avail' = Tail(not_tx_avail)
           /\ not_tx_used' = Append(not_tx_used, id)
           /\ IF IsPcmCmd(m.cmd)
              THEN \E env \in IF m.cmd = "VFE_MSG_PCM_OPEN" THEN OpenEnvs
                              ELSE OpsEnvs :
                    LET msg == PcmMsg(m.cmd, FeDomainId, FePcmId,
                                      FeDirection, 0, 0, "STOP")
                        r == vbe_skl_msg_pcm_handle(
                                [infos |-> substr_info_list,
                                 subs |-> substream], client_list, msg, env)
                    IN  /\ substream' = r.st.subs
                        /\ substr_info_list' = r.st.infos
                        /\ pcm_reply' = [ret |-> r.ret, msg |-> msg,
                                         rx |-> r.rx, ops |-> r.ops]
                        /\ pcm_msgs' = pcm_msgs + 1
                        /\ fe_msg' = [fe_msg EXCEPT ![id].place = "used",
                                ![id].rx_buf = IF r.rx.written THEN r.rx.ret
                                               ELSE @]
                        /\ UNCHANGED kctl_vars
              ELSE LET msg == KctlMsg(m.cmd, FeDomainId, "Speaker Switch", 1)
                       r == vbe_skl_msg_kcontrol_handle(kctl_value, msg)
                   IN  /\ kctl_value' = r.values
                       /\ kctl_reply' = [ret |-> r.ret, msg |-> msg,
                                         rx |-> r.rx]
                       /\ kctl_msgs' = kctl_msgs + 1
                       /\ fe_msg' = [fe_msg EXCEPT ![id].place = "used",
                                ![id].rx_buf = IF r.rx.written THEN r.rx.ret
                                               ELSE @]
                       /\ UNCHANGED <<substream, substr_info_list, pcm_reply,
                                      pcm_msgs>>
    /\ UNCHANGED <<aux_vars, client_list, pcm_fe_ret, expired_msg_list,
                   tx_loop_msg, timeout_work, vfe_substr_info, not_vars>>

\* vfe_tx_message_loop: virtqueue_get_buf and the read of msg->status. A
\* timed-out message goes to the expired list and the timeout work is
\* scheduled; any other message is completed by FeTxLoopComplete.
FeTxLoopGet ==
    /\ tx_loop_msg = 0
    /\ not_tx_used # <<>>
    /\ LET id == Head(not_tx_used)
           paths == TxLoopPaths(fe_msg[id].status)
       IN  /\ not_tx_used' = Tail(not_tx_used)
           /\ expired_msg_list' =
                 IF "expired" \in paths
                 THEN list_add_tail(id, expired_msg_list)
                 ELSE expired_msg_list
           /\ tx_loop_msg' = IF "normal" \in paths THEN id ELSE 0
           /\ fe_msg' = [fe_msg EXCEPT
                 ![id].place = IF "normal" \in paths THEN "loop"
                               ELSE "expired",
                 ![id].expired = IF "expired" \in paths THEN @ + 1 ELSE @]
    /\ UNCHANGED <<aux_vars, not_tx_avail, timeout_work, vfe_substr_info, pcm_vars,
                   not_vars, kctl_vars>>

\* vfe_tx_message_loop, the rest of the iteration for a message read as
\* not timed out: memcpy into msg->rx_data, *msg->completed = true,
\* wake_up(msg->waitq), and the three kfree.
FeTxLoopComplete ==
    /\ tx_loop_msg # 0
    /\ LET id == tx_loop_msg
           gone == fe_msg[id].caller = "returned"
       IN  fe_msg' = [fe_msg EXCEPT
                 ![id].rx_data = IF gone THEN @ ELSE fe_msg[id].rx_buf,
                 ![id].rx_copied = IF gone THEN @ ELSE TRUE,
                 ![id].completed = IF gone THEN @ ELSE TRUE,
                 ![id].late_writes = IF gone THEN @ + 2 ELSE @,
                 ![id].normal = @ + 1,
                 ![id].frees = @ + 1,
                 ![id].place = "freed"]
    /\ tx_loop_msg' = 0
    /\ UNCHANGED expired_msg_list
    /\ UNCHANGED <<aux_vars, not_tx_avail, not_tx_used, timeout_work, vfe_substr_info,
                   pcm_vars, not_vars, kctl_vars>>

\* wait_event_timeout of vfe_wait_for_msg_response returns 0: the timer
\* ran out and the condition was still false.
FeTimerExpires ==
    \E id \in 1..Len(fe_msg) :
        /\ fe_msg[id].caller = "waiting"
        /\ ~fe_msg[id].completed
        /\ fe_msg' = [fe_msg EXCEPT ![id].caller = "timer_expired"]
        /\ UNCHANGED <<aux_vars, not_tx_avail, not_tx_used, expired_msg_list,
                       tx_loop_msg, timeout_work, vfe_substr_info, pcm_vars,
                       not_vars, kctl_vars>>

\* The return of the caller from vfe_send_msg_with_timeout and what the
\* caller does with the outcome: vfe_pcm_open marks the stream open when
\* both the call and the backend succeeded.
CallerReturns(id, timed_out) ==
    LET m == vfe_wait_for_msg_response(fe_msg[id], timed_out)
    IN  /\ fe_msg' = [fe_msg EXCEPT ![id] = m]
        /\ vfe_substr_info' =
              IF /\ m.cmd = "VFE_MSG_PCM_OPEN" /\ m.by = "user"
                 /\ m.ret >= 0 /\ m.rx_data >= 0
              THEN [vfe_substr_info EXCEPT !.open = TRUE]
              ELSE vfe_substr_info
        /\ UNCHANGED <<aux_vars, not_tx_avail, not_tx_used, expired_msg_list,
                       tx_loop_msg, timeout_work, pcm_vars, not_vars,
                       kctl_vars>>

\* vfe_wait_for_msg_response after the timer ran out: atomic_set of the
\* status and return of -ETIMEDOUT.
FeMarkTimedOut ==
    \E id \in 1..Len(fe_msg) :
        /\ fe_msg[id].caller = "timer_expired"
        /\ CallerReturns(id, TRUE)

\* vfe_wait_for_msg_response woken with the condition true.
FeCallerWakes ==
    \E id \in 1..Len(fe_msg) :
        /\ fe_msg[id].caller = "waiting"
        /\ fe_msg[id].completed
        /\ CallerReturns(id, FALSE)

NoWork == [msg |-> 0, close |-> 0]

\* Variant: every timed-out PCM message is compensated by a Close.
ClosesForAnyPcm(cmd) == IsPcmCmd(cmd)

\* vfe_handle_timedout_not_tx_msg and vfe_handle_timedout_pcm_msg: TRUE
\* when the message is one that vfe_pcm_close is called for.
vfe_handle_timedout_not_tx_msg(cmd) ==
    IsPcmCmd(cmd) /\ cmd = "VFE_MSG_PCM_OPEN"

\* vfe_not_tx_timeout_handler takes the first expired message and calls
\* vfe_handle_timedout_not_tx_msg: a timed-out Open is compensated by
\* vfe_pcm_close, whose reply the handler waits for; any other message is
\* not handled, taken off the list and freed.
FeTimeoutHandlerTake ==
    /\ timeout_work = NoWork
    /\ expired_msg_list # <<>>
    /\ LET id == Head(expired_msg_list)
           m == fe_msg[id]
           taken == [fe_msg EXCEPT ![id].handled = @ + 1]
       IN  IF vfe_handle_timedout_not_tx_msg(m.cmd)
           THEN LET s == vfe_send_msg_with_timeout(taken, not_tx_avail,
                                        "VFE_MSG_PCM_CLOSE", "work", 0)
                IN  /\ fe_msg' = s.msgs
                    /\ not_tx_avail' = s.avail
                    /\ vfe_substr_info' =
                          [vfe_substr_info EXCEPT !.open = FALSE]
                    /\ timeout_work' = [msg |-> id, close |-> Len(s.msgs)]
                    /\ UNCHANGED expired_msg_list
           ELSE /\ fe_msg' = [taken EXCEPT ![id].place = "freed",
                                           ![id].frees = @ + 1]
                /\ expired_msg_list' = list_del(expired_msg_list, 1)
                /\ UNCHANGED <<not_tx_avail, vfe_substr_info, timeout_work>>
    /\ UNCHANGED <<aux_vars, not_tx_used, tx_loop_msg, pcm_vars, not_vars, kctl_vars>>

\* vfe_not_tx_timeout_handler after vfe_pcm_close returned: list_del and
\* the three kfree of the compensated message.
FeTimeoutHandlerDone ==
    /\ timeout_work # NoWork
    /\ fe_msg[timeout_work.close].caller = "returned"
    /\ fe_msg' = [fe_msg EXCEPT ![timeout_work.msg].place = "freed",
                                ![timeout_work.msg].frees = @ + 1]
    /\ expired_msg_list' = list_del(expired_msg_list, 1)
    /\ timeout_work' = NoWork
    /\ UNCHANGED <<aux_vars, not_tx_avail, not_tx_used, tx_loop_msg, vfe_substr_info,
                   pcm_vars, not_vars, kctl_vars>>

InitFe ==
    /\ fe_msg = <<>>
    /\ not_tx_avail = <<>>
    /\ not_tx_used = <<>>
    /\ expired_msg_list = <<>>
    /\ tx_loop_msg = 0
    /\ timeout_work = NoWork
    /\ vfe_substr_info = [open |-> FALSE, running |-> FALSE]

\* -------------------------------------------- frontend send attempts
\* The retry limit of vfe_send_msg_retry; its value is set in a header and
\* the loop is checked for this value and the next.
VFE_MSG_MAX_RETRY_NUM == 2
\* At most this many frontend calls are followed in one behaviour.
MaxSendCalls == 2

\* The requests sent with vfe_send_msg_retry and the PCM calls, which use
\* vfe_send_msg or vfe_send_msg_with_timeout directly.
CfgCmds == {"VFE_MSG_CFG_HDA", "VFE_MSG_CFG_RES_INFO",
            "VFE_MSG_CFG_RES_DESC", "VFE_MSG_CFG_DOMAIN"}
PcmCallCmds == {"VFE_MSG_PCM_OPEN", "VFE_MSG_PCM_CLOSE",
                "VFE_MSG_PCM_HW_PARAMS", "VFE_MSG_PCM_TRIGGER",
                "VFE_MSG_PCM_PREPARE"}

\* What one vfe_send_msg can return: success, the wait timed out, an
\* allocation failed, virtqueue_add_outbuf failed.
SendOutcomes == {0, ETIMEDOUT, ENOMEM, EIO}

NoCall == [idx |-> 0, ret |-> 0, cmd |-> "none", retry |-> FALSE,
           pc |-> "idle", log |-> <<>>, calls |-> 0]

\* Variant: the loop tries again after any failure.
RetriesAnyFailure(idx, ret) ==
    ret < 0 /\ idx + 1 <= VFE_MSG_MAX_RETRY_NUM

\* The loop of vfe_send_msg_retry after the attempt with index idx
\* returned ret: it breaks unless ret is -ETIMEDOUT, and runs again while
\* the next index is at most VFE_MSG_MAX_RETRY_NUM.
RetryLoopContinues(idx, ret) ==
    ret = ETIMEDOUT /\ idx + 1 <= VFE_MSG_MAX_RETRY_NUM

\* One of the four configuration calls enters vfe_send_msg_retry.
FeCfgCall ==
    \E cmd \in CfgCmds :
        /\ send_call.pc # "loop"
        /\ send_call.calls < MaxSendCalls
        /\ send_call' = [NoCall EXCEPT !.cmd = cmd, !.retry = TRUE,
                                       !.pc = "loop",
                                       !.calls = send_call.calls + 1]
        /\ UNCHANGED <<req_vars, pos_vars, ext_vars, pcm_vars, not_vars,
                       kctl_vars>>

\* One of the PCM calls reaches its single send.
FePcmCall ==
    \E cmd \in PcmCallCmds :
        /\ send_call.pc # "loop"
        /\ send_call.calls < MaxSendCalls
        /\ send_call' = [NoCall EXCEPT !.cmd = cmd, !.pc = "loop",
                                       !.calls = send_call.calls + 1]
        /\ UNCHANGED <<req_vars, pos_vars, ext_vars, pcm_vars, not_vars,
                       kctl_vars>>

\* One vfe_send_msg of the call in progress returns, and the call either
\* sends again or returns the outcome.
FeSendAttempt ==
    \E outcome \in SendOutcomes :
        /\ send_call.pc = "loop"
        /\ LET again == /\ send_call.retry
                        /\ RetryLoopContinues(send_call.idx, outcome)
           IN  send_call' = [send_call EXCEPT
                   !.log = Append(@, outcome),
                   !.ret = outcome,
                   !.idx = IF again THEN @ + 1 ELSE @,
                   !.pc = IF again THEN "loop" ELSE "done"]
        /\ UNCHANGED <<req_vars, pos_vars, ext_vars, pcm_vars, not_vars,
                       kctl_vars>>

InitSend == send_call = NoCall

\* ------------------------------------------- stream position updates
\* At most this many backend updates and frontend Prepare calls are
\* followed in one behaviour.
MaxIrqs == 2
MaxPrepares == 2

\* The streams of the frontend's substr_info_list, in list order.
PosStreams == {1, 2}
LastPosStream == Cardinality(PosStreams)

\* A vfe_stream_pos_desc. The backend's updates are numbered from 1.
\* hw_ptr holds the number of the last update begun when the position was
\* written (by that update, or by a Prepare after it); be_seq is the
\* number of the update that wrote be_irq_cnt, 0 when a Prepare wrote it.
NewPosDesc == [hw_ptr |-> 0, be_irq_cnt |-> 0, be_seq |-> 0, fe_irq_cnt |-> 0]

NoUpdate == [s |-> 0, seq |-> 0, first |-> "none"]
NoPrepare == [s |-> 0, pc |-> 0]
\* The handler's position and what it read: locked is the value of
\* mutex_is_locked in the last test; be_read is the be_irq_cnt the test
\* read and read_seq the update that wrote it; copy_seq is the update that
\* wrote the be_irq_cnt the handler copied; stale is set when
\* period-elapsed read a hw_ptr written before that update; irq_diff is
\* the difference the handler computed for the stream and missed is set
\* when it logged "Missed interrupts" for it; passed_locked holds the
\* streams this call passed over only because their substream was locked.
RxIdle == [idx |-> 0, pc |-> "idle", locked |-> FALSE, be_read |-> 0,
           read_seq |-> 0, copy_seq |-> 0, stale |-> FALSE, elapsed |-> {},
           irq_diff |-> 0, missed |-> FALSE, passed_locked |-> {}]

\* vfe_is_stream_running
vfe_is_stream_running(cmd) == cmd = "START"

\* Variant: the counter store writes one less.
BeStoreCountsDown(pos, which, seq) ==
    IF which = "hw_ptr" THEN [pos EXCEPT !.hw_ptr = seq]
    ELSE [pos EXCEPT !.be_irq_cnt = @ - 1, !.be_seq = seq]

\* One of the two stores of skl_notify_stream_update:
\* pos_desc->hw_ptr = rtd->ops.pointer(substream), or pos_desc->be_irq_cnt++.
BeStore(pos, which, seq) ==
    IF which = "hw_ptr" THEN [pos EXCEPT !.hw_ptr = seq]
    ELSE [pos EXCEPT !.be_irq_cnt = @ + 1, !.be_seq = seq]

OtherStore(which) == IF which = "hw_ptr" THEN "be_irq_cnt" ELSE "hw_ptr"

\* Everything the position actions leave alone.
nonpos_vars == <<req_vars, send_call, ext_vars, pcm_vars, not_vars, kctl_vars>>

\* skl_notify_stream_update for a stream whose descriptor is mapped: the
\* first of its two stores to reach memory. No barrier separates the two,
\* so either may be first.
BeNotifyStoreFirst ==
    \E s \in PosStreams, which \in {"hw_ptr", "be_irq_cnt"} :
        /\ be_update = NoUpdate
        /\ be_pos_desc[s]
        /\ pos_count.irqs < MaxIrqs
        /\ LET seq == pos_count.irqs + 1
           IN  /\ vfe_pos_desc' = [vfe_pos_desc EXCEPT ![s] = BeStore(@, which, seq)]
               /\ be_update' = [s |-> s, seq |-> seq, first |-> which]
               /\ pos_count' = [pos_count EXCEPT !.irqs = seq]
        /\ UNCHANGED <<pos_info, be_pos_desc, cmd_rx_irq, rx_handler,
                       prepare_call, nonpos_vars>>

\* skl_notify_stream_update: the other store, then wmb() and
\* virtio_vq_interrupt of the CMD_RX vq.
BeNotifyStoreSecond ==
    /\ be_update # NoUpdate
    /\ vfe_pos_desc' = [vfe_pos_desc EXCEPT ![be_update.s] =
                       BeStore(@, OtherStore(be_update.first), be_update.seq)]
    /\ be_update' = NoUpdate
    /\ cmd_rx_irq' = TRUE
    /\ UNCHANGED <<pos_info, be_pos_desc, rx_handler, prepare_call,
                   pos_count, nonpos_vars>>

\* Variant: the handler does not look at the running flag.
RxSkipsIgnoringRunning(info, pos, locked) ==
    \/ ~info.open
    \/ pos.be_irq_cnt = pos.fe_irq_cnt
    \/ locked

\* The condition under which vfe_cmd_handle_rx skips a stream.
RxSkips(info, pos, locked) ==
    \/ ~info.open
    \/ ~info.running
    \/ pos.be_irq_cnt = pos.fe_irq_cnt
    \/ locked

\* The handler moves on to the next stream of the list, or returns.
RxNext(rx) ==
    LET r == [rx EXCEPT !.be_read = 0, !.read_seq = 0, !.copy_seq = 0,
                        !.irq_diff = 0, !.missed = FALSE]
    IN  IF rx.idx = LastPosStream THEN [r EXCEPT !.pc = "idle", !.idx = 0]
        ELSE [r EXCEPT !.pc = "check", !.idx = @ + 1]

\* vfe_cmd_handle_rx is called for a pending interrupt: rmb() and the
\* start of the loop over the streams.
FeRxStart ==
    /\ cmd_rx_irq
    /\ rx_handler.pc = "idle"
    /\ cmd_rx_irq' = FALSE
    /\ rx_handler' = [RxIdle EXCEPT !.pc = "check", !.idx = 1]
    /\ UNCHANGED <<vfe_pos_desc, pos_info, be_pos_desc, be_update, prepare_call,
                   pos_count, nonpos_vars>>

\* vfe_cmd_handle_rx: the test of one stream, with mutex_is_locked of the
\* substream's group as the environment gives it.
FeRxCheck ==
    \E locked \in BOOLEAN :
        /\ rx_handler.pc = "check"
        /\ LET s == rx_handler.idx
               seen == [rx_handler EXCEPT !.locked = locked]
           IN  rx_handler' =
                  IF RxSkips(pos_info[s], vfe_pos_desc[s], locked)
                  THEN RxNext([seen EXCEPT !.passed_locked =
                                  IF RxSkips(pos_info[s], vfe_pos_desc[s], FALSE)
                                  THEN @ ELSE @ \cup {s}])
                  ELSE [seen EXCEPT !.pc = "copy",
                                    !.be_read = vfe_pos_desc[s].be_irq_cnt,
                                    !.read_seq = vfe_pos_desc[s].be_seq]
        /\ UNCHANGED <<vfe_pos_desc, pos_info, be_pos_desc, be_update, cmd_rx_irq,
                       prepare_call, pos_count, nonpos_vars>>

\* Variant: the handler never logs missed interrupts.
MissedNever(irq_diff) == FALSE

\* if (irq_diff > 1) dev_warn("Missed interrupts ...")
MissedInterrupts(irq_diff) == irq_diff > 1

\* vfe_cmd_handle_rx: irq_diff = be_irq_cnt - fe_irq_cnt, the warning, and
\* pos_desc->fe_irq_cnt = pos_desc->be_irq_cnt. The loads of be_irq_cnt
\* are plain loads of memory the backend writes: each of the two uses the
\* value the test read or the one in memory now.
FeRxCopy ==
    \E reload \in BOOLEAN, reload_diff \in BOOLEAN :
        /\ rx_handler.pc = "copy"
        /\ LET s == rx_handler.idx
               val == IF reload THEN vfe_pos_desc[s].be_irq_cnt
                      ELSE rx_handler.be_read
               seq == IF reload THEN vfe_pos_desc[s].be_seq
                      ELSE rx_handler.read_seq
               irq_diff == (IF reload_diff THEN vfe_pos_desc[s].be_irq_cnt
                            ELSE rx_handler.be_read)
                           - vfe_pos_desc[s].fe_irq_cnt
           IN  /\ vfe_pos_desc' = [vfe_pos_desc EXCEPT ![s].fe_irq_cnt = val]
               /\ rx_handler' = [rx_handler EXCEPT
                                    !.pc = "elapsed",
                                    !.copy_seq = seq,
                                    !.irq_diff = irq_diff,
                                    !.missed = MissedInterrupts(irq_diff)]
        /\ UNCHANGED <<pos_info, be_pos_desc, be_update, cmd_rx_irq,
                       prepare_call, pos_count, nonpos_vars>>

\* Variant: one work item for all the streams.
SharedUpdateWork(s) == 1

\* &substr_info->update_work: the work item of the stream.
UpdateWorkOf(s) == s

\* queue_work(vfe->posn_update_queue, &substr_info->update_work): the item
\* is queued unless it is pending already.
queue_work(pending, work) == pending \cup {work}

\* vfe_pcm_period_elapsed -> vfe_pcm_update_hw_ptr -> vfe_pcm_update_state
\* returns -EPIPE when avail has reached the stop threshold, which is the
\* case for the streams of posn_work.xrun, and 0 otherwise.
EPIPE == -32
vfe_pcm_period_elapsed(xrun, s) == IF s \in xrun THEN EPIPE ELSE 0

\* vfe_cmd_handle_rx: vfe_pcm_period_elapsed of the stream, which reads
\* pos_desc->hw_ptr through vfe_pcm_pointer; when it fails, the stream's
\* update_work is queued. Either way the loop goes on.
FeRxElapsed ==
    /\ rx_handler.pc = "elapsed"
    /\ LET s == rx_handler.idx
       IN  /\ rx_handler' = RxNext([rx_handler EXCEPT
                                !.stale = vfe_pos_desc[s].hw_ptr
                                             < rx_handler.copy_seq,
                                !.elapsed = @ \cup {s}])
           /\ posn_work' =
                 IF vfe_pcm_period_elapsed(posn_work.xrun, s) < 0
                 THEN [posn_work EXCEPT
                          !.failed = s,
                          !.pending = queue_work(@, UpdateWorkOf(s))]
                 ELSE [posn_work EXCEPT !.failed = 0]
    /\ UNCHANGED <<vfe_pos_desc, pos_info, be_pos_desc, be_update,
                   cmd_rx_irq, prepare_call, pos_count, req_vars,
                   send_call, be_not_tx, client_tplg, res_req,
                   nonwork_late, pcm_vars, not_vars, kctl_vars>>

\* The application of a running stream falls behind: avail reaches the
\* stop threshold of the stream.
FeAppFallsBehind ==
    \E s \in PosStreams :
        /\ pos_info[s].open /\ pos_info[s].running
        /\ s \notin posn_work.xrun
        /\ posn_work' = [posn_work EXCEPT !.xrun = @ \cup {s}]
        /\ UNCHANGED <<pos_vars, req_vars, send_call, be_not_tx,
                       client_tplg, res_req, nonwork_late, pcm_vars,
                       not_vars, kctl_vars>>

\* vfe_handle_posn, the work function of a stream's update_work:
\* vfe_pcm_recover, which finds avail at the stop threshold and stops the
\* stream with snd_pcm_stop_xrun, whose STOP trigger clears running.
FeHandlePosn ==
    \E s \in posn_work.pending :
        /\ posn_work' = [posn_work EXCEPT !.pending = @ \ {s},
                                          !.xrun = @ \ {s},
                                          !.failed = 0]
        /\ pos_info' = IF s \in posn_work.xrun
                       THEN [pos_info EXCEPT
                                ![s].running = vfe_is_stream_running("STOP")]
                       ELSE pos_info
        /\ UNCHANGED <<vfe_pos_desc, be_pos_desc, be_update, cmd_rx_irq,
                       rx_handler, prepare_call, pos_count, req_vars,
                       send_call, be_not_tx, client_tplg, res_req,
                       nonwork_late, pcm_vars, not_vars, kctl_vars>>

\* vfe_pcm_open succeeded: substr_info->open = true.
FePosOpen ==
    \E s \in PosStreams :
        /\ ~pos_info[s].open
        /\ pos_info' = [pos_info EXCEPT ![s].open = TRUE]
        /\ UNCHANGED <<vfe_pos_desc, be_pos_desc, be_update, cmd_rx_irq,
                       rx_handler, prepare_call, pos_count, nonpos_vars>>

\* vfe_pcm_close: substr_info->open = false, and the backend's Close
\* unmaps the descriptor.
FePosClose ==
    \E s \in PosStreams :
        /\ pos_info[s].open
        /\ be_update.s # s
        /\ prepare_call.s # s
        /\ pos_info' = [pos_info EXCEPT ![s].open = FALSE]
        /\ be_pos_desc' = [be_pos_desc EXCEPT ![s] = FALSE]
        /\ UNCHANGED <<vfe_pos_desc, be_update, cmd_rx_irq, rx_handler,
                       prepare_call, pos_count, nonpos_vars>>

\* vfe_pcm_trigger: substr_info->running = vfe_is_stream_running(cmd).
FePosTrigger ==
    \E s \in PosStreams, cmd \in TriggerCmds :
        /\ pos_info[s].open
        /\ prepare_call.s # s
        /\ pos_info[s].running # vfe_is_stream_running(cmd)
        /\ pos_info' = [pos_info EXCEPT
                           ![s].running = vfe_is_stream_running(cmd)]
        /\ UNCHANGED <<vfe_pos_desc, be_pos_desc, be_update, cmd_rx_irq,
                       rx_handler, prepare_call, pos_count, nonpos_vars>>

\* vfe_pcm_prepare is called for an open stream that is not running.
FePrepareStart ==
    \E s \in PosStreams :
        /\ prepare_call = NoPrepare
        /\ pos_info[s].open /\ ~pos_info[s].running
        /\ pos_count.prepares < MaxPrepares
        /\ prepare_call' = [s |-> s, pc |-> 1]
        /\ pos_count' = [pos_count EXCEPT !.prepares = @ + 1]
        /\ UNCHANGED <<vfe_pos_desc, pos_info, be_pos_desc, be_update, cmd_rx_irq,
                       rx_handler, nonpos_vars>>

\* vfe_pcm_prepare: the next of its three stores, in program order:
\* hw_ptr = 0, be_irq_cnt = 0, fe_irq_cnt = 0.
FePrepareStore ==
    /\ prepare_call.pc \in {1, 2, 3}
    /\ LET s == prepare_call.s
       IN  vfe_pos_desc' = [vfe_pos_desc EXCEPT ![s] =
              CASE prepare_call.pc = 1 -> [@ EXCEPT !.hw_ptr = pos_count.irqs]
                [] prepare_call.pc = 2 -> [@ EXCEPT !.be_irq_cnt = 0,
                                                    !.be_seq = 0]
                [] OTHER -> [@ EXCEPT !.fe_irq_cnt = 0]]
    /\ prepare_call' = [prepare_call EXCEPT !.pc = @ + 1]
    /\ UNCHANGED <<pos_info, be_pos_desc, be_update, cmd_rx_irq, rx_handler,
                   pos_count, nonpos_vars>>

\* vfe_pcm_prepare: the Prepare message; vbe_skl_prepare_dma maps the
\* descriptor, or fails and leaves the backend without one.
FePrepareSend ==
    \E mapped \in BOOLEAN :
        /\ prepare_call.pc = 4
        /\ be_update.s # prepare_call.s
        /\ be_pos_desc' = [be_pos_desc EXCEPT ![prepare_call.s] = mapped]
        /\ prepare_call' = NoPrepare
        /\ UNCHANGED <<vfe_pos_desc, pos_info, be_update, cmd_rx_irq, rx_handler,
                       pos_count, nonpos_vars>>

InitPos ==
    /\ vfe_pos_desc = [s \in PosStreams |-> NewPosDesc]
    /\ pos_info = [s \in PosStreams |-> [open |-> FALSE, running |-> FALSE]]
    /\ be_pos_desc = [s \in PosStreams |-> FALSE]
    /\ be_update = NoUpdate
    /\ cmd_rx_irq = FALSE
    /\ rx_handler = RxIdle
    /\ prepare_call = NoPrepare
    /\ pos_count = [irqs |-> 0, prepares |-> 0]

\* -------------------------------- backend drain of the NOT_TX queue
\* Chains a frontend submits in one behaviour.
MaxChains == 3
\* sizeof(struct vfe_msg_header), in abstract units, and the lengths a
\* frontend can give the header buffer of a chain.
SizeofMsgHeader == 4
HeaderLens == {SizeofMsgHeader, SizeofMsgHeader - 1}

\* Variant: the header length is not looked at.
NotFwdIgnoresSize(header_len, cmd) ==
    IF IsPcmCmd(cmd) THEN "pcm" ELSE "kctl"

\* vbe_skl_not_fwd: the handler a message is passed to, "none" when the
\* header length is not sizeof(struct vfe_msg_header).
vbe_skl_not_fwd(header_len, cmd) ==
    IF header_len # SizeofMsgHeader THEN "none"
    ELSE IF IsPcmCmd(cmd) THEN "pcm" ELSE "kctl"

\* A frontend puts a chain on the NOT_TX vq and kicks.
FeSubmitChain ==
    \E cmd \in FeCmds, header_len \in HeaderLens :
        /\ be_not_tx.sent < MaxChains
        /\ be_not_tx' = [be_not_tx EXCEPT
              !.sent = @ + 1,
              !.avail = Append(@, [cmd |-> cmd, id |-> be_not_tx.sent + 1,
                                   header_len |-> header_len]),
              !.kick = TRUE]
        /\ UNCHANGED <<req_vars, send_call, pos_vars, pcm_vars, not_vars,
                       kctl_vars, client_tplg, res_req,
                       late_vars>>

\* The kick reaches the backend: vbe_skl_ipc_fe_not_get is entered.
BeNotTxStart ==
    /\ be_not_tx.kick /\ ~be_not_tx.running
    /\ be_not_tx' = [be_not_tx EXCEPT !.kick = FALSE, !.running = TRUE]
    /\ UNCHANGED <<req_vars, send_call, pos_vars, pcm_vars, not_vars,
                   kctl_vars, client_tplg, res_req,
                       late_vars>>

\* vbe_skl_ipc_fe_not_get: one turn of the loop. The head chain is taken,
\* vbe_skl_not_fwd passes it to its handler or rejects it, and the chain
\* is released with the length of its header buffer.
BeNotTxGet ==
    /\ be_not_tx.running
    /\ be_not_tx.avail # <<>>
    /\ LET chain == Head(be_not_tx.avail)
           target == vbe_skl_not_fwd(chain.header_len, chain.cmd)
       IN  /\ be_not_tx' = [be_not_tx EXCEPT
                 !.avail = Tail(@),
                 !.used = Append(@, <<chain.id, chain.header_len>>),
                 !.dispatched = IF target = "none" THEN @
                                ELSE Append(@, chain.id)]
           /\ CASE target = "pcm" ->
                    \E env \in IF chain.cmd = "VFE_MSG_PCM_OPEN"
                                THEN OpenEnvs ELSE OpsEnvs :
                       LET msg == PcmMsg(chain.cmd, FeDomainId, FePcmId,
                                         FeDirection, 0, 0, "STOP")
                           r == vbe_skl_msg_pcm_handle(
                                   [infos |-> substr_info_list,
                                    subs |-> substream], client_list, msg,
                                   env)
                       IN  /\ substream' = r.st.subs
                           /\ substr_info_list' = r.st.infos
                           /\ pcm_reply' = [ret |-> r.ret, msg |-> msg,
                                            rx |-> r.rx, ops |-> r.ops]
                           /\ UNCHANGED <<client_list, pcm_msgs, pcm_fe_ret,
                                          kctl_vars>>
                [] target = "kctl" ->
                    LET msg == KctlMsg(chain.cmd, FeDomainId,
                                       "Speaker Switch", 1)
                        r == vbe_skl_msg_kcontrol_handle(kctl_value, msg)
                    IN  /\ kctl_value' = r.values
                        /\ kctl_reply' = [ret |-> r.ret, msg |-> msg,
                                          rx |-> r.rx]
                        /\ UNCHANGED <<pcm_vars, kctl_msgs>>
                [] OTHER -> UNCHANGED <<pcm_vars, kctl_vars>>
    /\ UNCHANGED <<req_vars, send_call, pos_vars, not_vars, client_tplg,
                   res_req, late_vars>>

\* vbe_skl_ipc_fe_not_get: the queue has no more chains;
\* virtio_vq_endchains and return.
BeNotTxEnd ==
    /\ be_not_tx.running
    /\ be_not_tx.avail = <<>>
    /\ be_not_tx' = [be_not_tx EXCEPT !.running = FALSE]
    /\ UNCHANGED <<req_vars, send_call, pos_vars, pcm_vars, not_vars,
                   kctl_vars, client_tplg, res_req,
                       late_vars>>

InitGet ==
    be_not_tx = [avail |-> <<>>, used |-> <<>>, sent |-> 0,
                 running |-> FALSE, kick |-> FALSE, dispatched |-> <<>>]

\* ------------------------------------------------ resource transfer
\* Calls of vfe_request_ext_resource and topology loads in one behaviour.
MaxResCalls == 2
MaxTplgLoads == 2

\* A struct firmware: found is FALSE for a NULL handle; data is the blob,
\* its length the size.
NoFw == [found |-> FALSE, data |-> <<>>]
Fw(data) == [found |-> TRUE, data |-> data]

\* Topology blobs request_firmware can give a client, the base firmware
\* skl_sst->dsp->fw, and the one library of skl_sst->lib_info.
TplgBlobs == {<<7>>, <<8, 9>>, <<6, 5>>}
DspFw == Fw(<<1, 2, 3>>)
LibFw == Fw(<<4, 5>>)

\* <<type, name>> of the resources a frontend can ask for.
ResTargets == {<<"VFE_TOPOLOGY_RES", "">>, <<"VFE_FIRMWARE_RES", "">>,
               <<"VFE_LIBRARY_RES", "lib1">>, <<"VFE_LIBRARY_RES", "libX">>,
               <<"VFE_OTHER_RES", "">>}

\* sizeof of the rx payload of the two resource opcodes, in abstract
\* units.
SizeofRx(cmd) == IF cmd = "VFE_MSG_CFG_RES_INFO" THEN 3 ELSE 5

vbe_find_lib_fw(name) == IF name = "lib1" THEN LibFw ELSE NoFw

vbe_find_res_hndl(tplg, type, name) ==
    CASE type = "VFE_TOPOLOGY_RES" -> tplg
      [] type = "VFE_FIRMWARE_RES" -> DspFw
      [] type = "VFE_LIBRARY_RES" -> vbe_find_lib_fw(name)
      [] OTHER -> NoFw

\* Variant: the last byte is not copied.
MemCpyShort(dest, src, n) ==
    [i \in 1..Len(dest) |-> IF i < n THEN src[i] ELSE dest[i]]

\* memcpy(dest, src, n); 255 stands for whatever lies in memory behind
\* the end of src.
MemCpy(dest, src, n) ==
    [i \in 1..Len(dest) |->
        IF i > n THEN dest[i]
        ELSE IF i <= Len(src) THEN src[i] ELSE 255]

\* vbe_skl_cfg_resource_info: returns [ret, rx], rx the res_info payload.
vbe_skl_cfg_resource_info(tplg, msg) ==
    LET fw == vbe_find_res_hndl(tplg, msg.rx.type, msg.rx.name)
    IN  IF ~msg.has_rx \/ msg.rx_size # SizeofRx("VFE_MSG_CFG_RES_INFO")
        THEN [ret |-> EINVAL, rx |-> msg.rx]
        ELSE IF ~fw.found
        THEN [ret |-> EBADF, rx |-> [msg.rx EXCEPT !.size = 0]]
        ELSE [ret |-> 0, rx |-> [msg.rx EXCEPT !.size = Len(fw.data)]]

\* Variant: the size of the request is not compared with the resource.
DescIgnoresSize(fw, size) == FALSE

\* if (fw->size != res_desc->size)
DescSizeDiffers(fw, size) == Len(fw.data) # size

\* vbe_skl_cfg_resource_desc: returns [ret, rx, dest], rx the res_desc
\* payload and dest the bytes of the guest region at res_desc->phys_addr.
vbe_skl_cfg_resource_desc(tplg, msg, dest) ==
    LET fw == vbe_find_res_hndl(tplg, msg.rx.type, msg.rx.name)
        done(ret, d) == [ret |-> ret, rx |-> [msg.rx EXCEPT !.ret = ret],
                         dest |-> d]
    IN  IF ~msg.has_rx \/ msg.rx_size # SizeofRx("VFE_MSG_CFG_RES_DESC")
        THEN [ret |-> EINVAL, rx |-> msg.rx, dest |-> dest]
        ELSE IF ~fw.found THEN done(EBADF, dest)
        ELSE IF DescSizeDiffers(fw, msg.rx.size) THEN done(EINVAL, dest)
        ELSE done(0, MemCpy(dest, fw.data, msg.rx.size))

\* The rx payload of a resource request as vfe_request_ext_resource fills
\* it; ret is what the stack held.
ResMsg(cmd, type, name, size, ret) ==
    [rx |-> [size |-> size, ret |-> ret, name |-> name, type |-> type], has_rx |-> TRUE, cmd |-> cmd,
     rx_size |-> SizeofRx(cmd)]

\* No call in progress. info_fw and desc_fw are the handles the backend
\* resolved for the two requests of the call; new_fw is the allocated
\* blob (data region, zeroed) and fw the blob handed to the caller.
NoResCall ==
    [ret |-> 0, rx |-> ResMsg("none", "", "", 0, 0), name |-> "", pc |-> "idle", type |-> "",
     fw |-> NoFw, be_ret |-> 0, info_fw |-> NoFw, desc_fw |-> NoFw,
     new_fw |-> <<>>]

\* Everything the resource actions leave alone.
nonres_vars == <<req_vars, send_call, pos_vars, be_not_tx, pcm_vars, not_vars,
                 kctl_vars, late_vars>>

\* vbe_skl_cfg_domain: request_firmware(&client->tplg, ...) gives the
\* client a topology, or fails and leaves the handle NULL.
BeCfgDomain ==
    \E fw \in {Fw(b) : b \in TplgBlobs} \cup {NoFw} :
        /\ res_req.loads < MaxTplgLoads
        /\ client_tplg' = fw
        /\ res_req' = [res_req EXCEPT !.loads = @ + 1]
        /\ UNCHANGED nonres_vars

\* vfe_request_ext_resource is called and sends the Info request.
FeResInfoSend ==
    \E t \in ResTargets, junk \in {0, EIO} :
        /\ res_req.call.pc \in {"idle", "done"}
        /\ res_req.calls < MaxResCalls
        /\ res_req' = [res_req EXCEPT
              !.calls = @ + 1,
              !.call = [NoResCall EXCEPT
                  !.pc = "info", !.type = t[1], !.name = t[2],
                  !.rx = ResMsg("VFE_MSG_CFG_RES_INFO", t[1], t[2], junk,
                                junk)]]
        /\ UNCHANGED <<client_tplg, nonres_vars>>

\* The backend handles the Info request.
BeCfgResInfo ==
    /\ res_req.call.pc = "info"
    /\ LET c == res_req.call
           r == vbe_skl_cfg_resource_info(client_tplg, c.rx)
       IN  res_req' = [res_req EXCEPT !.call =
              [c EXCEPT !.pc = "info_reply",
                        !.rx = [c.rx EXCEPT !.rx = r.rx],
                        !.be_ret = r.ret,
                        !.info_fw = vbe_find_res_hndl(client_tplg, c.type,
                                                      c.name)]]
    /\ UNCHANGED <<client_tplg, nonres_vars>>

\* vfe_request_ext_resource reads the Info reply: a size of 0 ends the
\* call with -EINVAL; otherwise it allocates the blob and sends the
\* Descriptor request with that size.
FeResDescSend ==
    \E alloc_ok \in BOOLEAN, junk \in {0, EIO} :
        /\ res_req.call.pc = "info_reply"
        /\ LET c == res_req.call
               size == c.rx.rx.size
           IN  res_req' = [res_req EXCEPT !.call =
                  IF size = 0 THEN [c EXCEPT !.pc = "done", !.ret = EINVAL]
                  ELSE IF ~alloc_ok
                  THEN [c EXCEPT !.pc = "done", !.ret = ENOMEM]
                  ELSE [c EXCEPT
                          !.pc = "desc",
                          !.new_fw = [i \in 1..size |-> 0],
                          !.rx = ResMsg("VFE_MSG_CFG_RES_DESC", c.type,
                                        c.name, size, junk)]]
        /\ UNCHANGED <<client_tplg, nonres_vars>>

\* The backend handles the Descriptor request.
BeCfgResDesc ==
    /\ res_req.call.pc = "desc"
    /\ LET c == res_req.call
           r == vbe_skl_cfg_resource_desc(client_tplg, c.rx, c.new_fw)
       IN  res_req' = [res_req EXCEPT !.call =
              [c EXCEPT !.pc = "desc_reply",
                        !.rx = [c.rx EXCEPT !.rx = r.rx],
                        !.be_ret = r.ret,
                        !.new_fw = r.dest,
                        !.desc_fw = vbe_find_res_hndl(client_tplg, c.type,
                                                      c.name)]]
    /\ UNCHANGED <<client_tplg, nonres_vars>>

\* vfe_request_ext_resource reads the Descriptor reply: on a non-negative
\* res_desc.ret the blob is handed to the caller, otherwise it is freed.
FeResFinish ==
    /\ res_req.call.pc = "desc_reply"
    /\ LET c == res_req.call
           ret == c.rx.rx.ret
       IN  res_req' = [res_req EXCEPT !.call =
              IF ret >= 0
              THEN [c EXCEPT !.pc = "done", !.ret = ret,
                             !.fw = Fw(c.new_fw)]
              ELSE [c EXCEPT !.pc = "done", !.ret = ret, !.new_fw = <<>>]]
    /\ UNCHANGED <<client_tplg, nonres_vars>>

InitRes ==
    /\ client_tplg = NoFw
    /\ res_req = [calls |-> 0, loads |-> 0, call |-> NoResCall]

\* -------------------------------------- the two unlocked lists
\* vbe->pending_msg_list is written by vbe_skl_send_or_enqueue, in the
\* context of whoever changes a control, and by
\* vbe_skl_ipc_fe_not_reply_get, in the context of the kick;
\* vfe->expired_msg_list is written by vfe_tx_message_loop and by
\* vfe_not_tx_timeout_handler, two work items of the system workqueue.
\* Neither list has a lock, so each list_add_tail and list_del is a step
\* that begins and a step that ends.  list_access holds, for each of the
\* four tasks, the entry it is linking or unlinking (<<>> when it is
\* not inside the list operation), and in raced the lists on which two
\* operations overlapped.
MaxExclNotis == 2
MaxExclMsgs == 2

NoAccess == [be_send |-> <<>>, be_drain |-> <<>>, fe_loop |-> <<>>,
             fe_work |-> <<>>, raced |-> {}]

\* The other task of each list.
OtherTask(task) ==
    CASE task = "be_send" -> "be_drain"
      [] task = "be_drain" -> "be_send"
      [] task = "fe_loop" -> "fe_work"
      [] OTHER -> "fe_loop"
ListOf(task) ==
    IF task \in {"be_send", "be_drain"} THEN "pending" ELSE "expired"

\* task enters list_add_tail or list_del with entry: nothing holds it back.
EnterList(acc, task, entry) ==
    [acc EXCEPT ![task] = <<entry>>,
                !.raced = IF acc[OtherTask(task)] # <<>>
                          THEN @ \cup {ListOf(task)} ELSE @]
\* task leaves the list operation.
LeaveList(acc, task) ==
    [acc EXCEPT ![task] = <<>>,
                !.raced = IF acc[OtherTask(task)] # <<>>
                          THEN @ ELSE @ \ {ListOf(task)}]

\* What list_add_tail leaves when it ends: the entry linked at the tail,
\* or, when it overlapped a list_del of the entry it linked behind, a
\* list the new entry cannot be reached from.
ListAddTailOutcomes(list, entry, raced) ==
    IF raced THEN {list_add_tail(entry, list), list}
    ELSE {list_add_tail(entry, list)}

\* list_del of the entry e: the list without it.
ListDelEntry(list, e) == SelectSeq(list, LAMBDA x : x # e)

\* vbe_send_kctl_msg -> vbe_skl_send_or_enqueue up to list_add_tail: the
\* message is sent, or it is copied into save_msg and list_add_tail begins.
ExclBeSendKctlMsg ==
    \E change \in KctlChanges :
        LET id == noti_sent + 1
            kctl_msg == [msg |-> [id |-> id, msg_type |-> "VFE_MSG_KCTL_SET",
                                  kcontrol_id |-> change[1],
                                  value |-> change[2]],
                         sizeof_msg |-> SizeofKctlNoti]
            r == vbe_skl_try_send(NotQ.vq, kctl_msg.msg, kctl_msg.sizeof_msg)
        IN  /\ noti_sent < MaxExclNotis
            /\ list_access.be_send = <<>>
            /\ noti_sent' = id
            /\ not_rx_avail' = r.vq.avail
            /\ not_rx_used' = r.vq.used
            /\ list_access' = IF r.sent = FALSE
                              THEN EnterList(list_access, "be_send", kctl_msg)
                              ELSE list_access
            /\ UNCHANGED <<pending_msg_list, not_rx_kick, inbox_seen,
                           inbox_free, send_result, enqueue_log, req_vars,
                           send_call, pos_vars, be_not_tx, client_tplg,
                           res_req, nonlist_late, pcm_vars, kctl_vars>>

\* The end of list_add_tail(&save_msg->list, &vbe->pending_msg_list).
ExclBeListAddTail ==
    /\ list_access.be_send # <<>>
    /\ LET save_msg == list_access.be_send[1]
       IN  /\ pending_msg_list' \in
                 ListAddTailOutcomes(pending_msg_list, save_msg,
                                     "pending" \in list_access.raced)
           /\ enqueue_log' = Append(enqueue_log, save_msg.msg.id)
    /\ list_access' = LeaveList(list_access, "be_send")
    /\ UNCHANGED <<not_rx_avail, not_rx_used, not_rx_kick, inbox_seen,
                   inbox_free, noti_sent, send_result, req_vars, send_call,
                   pos_vars, be_not_tx, client_tplg, res_req, nonlist_late, pcm_vars,
                   kctl_vars>>

\* One iteration of vbe_skl_ipc_fe_not_reply_get up to list_del: the
\* first entry is sent and list_del begins, or the loop ends.
ExclBeKickTrySend ==
    /\ not_rx_kick
    /\ list_access.be_drain = <<>>
    /\ IF pending_msg_list = <<>>
       THEN /\ not_rx_kick' = FALSE
            /\ UNCHANGED <<not_rx_avail, not_rx_used, list_access>>
       ELSE LET entry == list_first_entry_or_null(pending_msg_list)
                r == vbe_skl_try_send(NotQ.vq, entry.msg, entry.sizeof_msg)
            IN  /\ not_rx_avail' = r.vq.avail
                /\ not_rx_used' = r.vq.used
                /\ not_rx_kick' = r.sent
                /\ list_access' =
                      IF r.sent = TRUE
                      THEN EnterList(list_access, "be_drain", entry)
                      ELSE list_access
    /\ UNCHANGED <<pending_msg_list, inbox_seen, inbox_free, noti_sent,
                   send_result, enqueue_log, req_vars, send_call, pos_vars,
                   be_not_tx, client_tplg, res_req, nonlist_late, pcm_vars, kctl_vars>>

\* The end of list_del(&entry->list), and kfree(entry).
ExclBeListDel ==
    /\ list_access.be_drain # <<>>
    /\ pending_msg_list' = ListDelEntry(pending_msg_list,
                                        list_access.be_drain[1])
    /\ list_access' = LeaveList(list_access, "be_drain")
    /\ UNCHANGED <<not_rx_avail, not_rx_used, not_rx_kick, inbox_seen,
                   inbox_free, noti_sent, send_result, enqueue_log, req_vars,
                   send_call, pos_vars, be_not_tx, client_tplg, res_req, nonlist_late,
                   pcm_vars, kctl_vars>>

\* A request of the frontend, within the bound of this specification.
ExclFeKctlSet ==
    /\ Len(fe_msg) < MaxExclMsgs
    /\ FeKctlSet

\* vfe_tx_message_loop: virtqueue_get_buf and the read of msg->status; for
\* a timed-out message list_add_tail begins.
ExclFeTxLoopGet ==
    /\ tx_loop_msg = 0
    /\ list_access.fe_loop = <<>>
    /\ not_tx_used # <<>>
    /\ LET id == Head(not_tx_used)
           paths == TxLoopPaths(fe_msg[id].status)
       IN  /\ not_tx_used' = Tail(not_tx_used)
           /\ tx_loop_msg' = IF "normal" \in paths THEN id ELSE 0
           /\ fe_msg' = [fe_msg EXCEPT ![id].place = "loop"]
           /\ list_access' = IF "expired" \in paths
                             THEN EnterList(list_access, "fe_loop", id)
                             ELSE list_access
    /\ UNCHANGED <<not_tx_avail, expired_msg_list, timeout_work,
                   vfe_substr_info, send_call, pos_vars, be_not_tx,
                   client_tplg, res_req, nonlist_late, pcm_vars, not_vars, kctl_vars>>

\* The end of list_add_tail(&msg->list, &vfe->expired_msg_list), and
\* schedule_work(&vfe->msg_timeout_work).
ExclFeListAddTail ==
    /\ list_access.fe_loop # <<>>
    /\ LET id == list_access.fe_loop[1]
       IN  /\ expired_msg_list' \in
                 ListAddTailOutcomes(expired_msg_list, id,
                                     "expired" \in list_access.raced)
           /\ fe_msg' = [fe_msg EXCEPT ![id].place = "expired",
                                       ![id].expired = @ + 1]
    /\ list_access' = LeaveList(list_access, "fe_loop")
    /\ UNCHANGED <<not_tx_avail, not_tx_used, tx_loop_msg, timeout_work,
                   vfe_substr_info, send_call, pos_vars, be_not_tx,
                   client_tplg, res_req, nonlist_late, pcm_vars, not_vars, kctl_vars>>

\* One iteration of vfe_not_tx_timeout_handler up to list_del: the first
\* expired message is given to vfe_handle_timedout_not_tx_msg, which does
\* nothing for the KCTL requests of this specification, and list_del
\* begins.
ExclFeTimeoutTake ==
    /\ list_access.fe_work = <<>>
    /\ expired_msg_list # <<>>
    /\ LET id == list_first_entry_or_null(expired_msg_list)
       IN  /\ ~IsPcmCmd(fe_msg[id].cmd)
           /\ fe_msg' = [fe_msg EXCEPT ![id].handled = @ + 1]
           /\ list_access' = EnterList(list_access, "fe_work", id)
    /\ UNCHANGED <<not_tx_avail, not_tx_used, expired_msg_list, tx_loop_msg,
                   timeout_work, vfe_substr_info, send_call, pos_vars,
                   be_not_tx, client_tplg, res_req, nonlist_late, pcm_vars, not_vars,
                   kctl_vars>>

\* The end of list_del(&msg->list), and the three kfree.
ExclFeListDel ==
    /\ list_access.fe_work # <<>>
    /\ LET id == list_access.fe_work[1]
       IN  /\ expired_msg_list' = ListDelEntry(expired_msg_list, id)
           /\ fe_msg' = [fe_msg EXCEPT ![id].place = "freed",
                                       ![id].frees = @ + 1]
    /\ list_access' = LeaveList(list_access, "fe_work")
    /\ UNCHANGED <<not_tx_avail, not_tx_used, tx_loop_msg, timeout_work,
                   vfe_substr_info, send_call, pos_vars, be_not_tx,
                   client_tplg, res_req, nonlist_late, pcm_vars, not_vars, kctl_vars>>

\* --------------------- position update against Close at the backend
\* irq is the stream whose session skl_notify_stream_update found and
\* whose pos_desc it tested, 0 when no update is in progress; close is the
\* stream vbe_skl_pcm_close is running for and unmapped tells that it has
\* unmapped the descriptor; freed holds the streams whose session entry
\* Close removed and freed; faults records what an update did to a
\* released mapping or a freed entry.
NoRace == [close |-> 0, irq |-> 0, unmapped |-> FALSE, freed |-> {},
           faults |-> {}]

nonirq_vars == <<req_vars, send_call, be_not_tx, client_tplg, res_req,
                 nonirq_late, pcm_vars, not_vars, kctl_vars>>

\* What the stores of an update do once vbe_skl_pcm_close has set pos_desc
\* to NULL and unmapped it: the update stores through the pointer it read
\* for its test, or reads the pointer again and stores through NULL.
IrqStoreOutcomes(mapped) ==
    IF mapped THEN {"stored"} ELSE {"released_write", "null_write"}

\* skl_notify_stream_update in interrupt context: the session of the
\* stream is found and its pos_desc is not NULL.
IrqFindSubstreamInfo ==
    \E s \in PosStreams :
        /\ irq_close.irq = 0
        /\ s \notin irq_close.freed
        /\ be_pos_desc[s]
        /\ pos_count.irqs < MaxIrqs
        /\ irq_close' = [irq_close EXCEPT !.irq = s]
        /\ pos_count' = [pos_count EXCEPT !.irqs = @ + 1]
        /\ UNCHANGED <<vfe_pos_desc, pos_info, be_pos_desc, be_update,
                       cmd_rx_irq, rx_handler, prepare_call, nonirq_vars>>

\* skl_notify_stream_update: vbe = substr_info->vbe, the two stores
\* through substr_info->pos_desc and virtio_vq_interrupt.
IrqStore ==
    /\ irq_close.irq # 0
    /\ LET s == irq_close.irq
           seq == pos_count.irqs
       IN  \E outcome \in IrqStoreOutcomes(be_pos_desc[s]) :
              /\ irq_close' = [irq_close EXCEPT
                    !.irq = 0,
                    !.faults = @ \cup
                       (IF outcome = "stored" THEN {}
                        ELSE {<<s, outcome>>})
                       \cup (IF s \in irq_close.freed
                             THEN {<<s, "freed_read">>} ELSE {})]
              /\ vfe_pos_desc' =
                    IF outcome = "stored"
                    THEN [vfe_pos_desc EXCEPT ![s] =
                            BeStore(BeStore(@, "hw_ptr", seq),
                                    "be_irq_cnt", seq)]
                    ELSE vfe_pos_desc
              /\ cmd_rx_irq' = IF outcome = "stored" THEN TRUE
                               ELSE cmd_rx_irq
    /\ UNCHANGED <<pos_info, be_pos_desc, be_update, rx_handler,
                   prepare_call, pos_count, nonirq_vars>>

\* vfe_pcm_close marks the stream closed and its Close message reaches
\* vbe_skl_pcm_close on the backend's worker.
CloseArrives ==
    \E s \in PosStreams :
        /\ irq_close.close = 0
        /\ pos_info[s].open
        /\ pos_info' = [pos_info EXCEPT ![s].open = FALSE]
        /\ irq_close' = [irq_close EXCEPT !.close = s, !.unmapped = FALSE]
        /\ UNCHANGED <<vfe_pos_desc, be_pos_desc, be_update, cmd_rx_irq,
                       rx_handler, prepare_call, pos_count, nonirq_vars>>

\* vbe_skl_pcm_close: unmap_guest_phys and pos_desc = NULL.
CloseUnmap ==
    /\ irq_close.close # 0
    /\ ~irq_close.unmapped
    /\ be_pos_desc' = [be_pos_desc EXCEPT ![irq_close.close] = FALSE]
    /\ irq_close' = [irq_close EXCEPT !.unmapped = TRUE]
    /\ UNCHANGED <<vfe_pos_desc, pos_info, be_update, cmd_rx_irq,
                   rx_handler, prepare_call, pos_count, nonirq_vars>>

\* vbe_skl_pcm_close: list_del and kfree of the session entry.
CloseFree ==
    /\ irq_close.close # 0
    /\ irq_close.unmapped
    /\ irq_close' = [irq_close EXCEPT !.close = 0, !.unmapped = FALSE,
                                      !.freed = @ \cup {irq_close.close}]
    /\ UNCHANGED <<pos_vars, nonirq_vars>>

\* ------------------------- Descriptor requests that time out
\* calls counts the calls of vfe_request_ext_resource; pc and idx are the
\* position of the call in vfe_send_msg_retry; regions holds, for each
\* call, the state of its destination buffer new_fw ("allocated",
\* "handed" to the caller, or "freed") and the bytes in it; posted holds
\* the Descriptor requests on the NOT_TX queue the backend has not handled
\* yet; late_copies records the requests whose bytes the backend copied
\* into a freed region.
NoDescRetry ==
    [idx |-> 0, ret |-> 0, pc |-> "idle", calls |-> 0,
     regions |-> <<>>, posted |-> <<>>, late_copies |-> {}]

nondesc_vars == <<req_vars, send_call, pos_vars, be_not_tx, client_tplg,
                  res_req, nondesc_late, pcm_vars, not_vars, kctl_vars>>

\* The resources the timed-out transfers ask for.
RetryTargets == {<<"VFE_FIRMWARE_RES", "">>, <<"VFE_LIBRARY_RES", "lib1">>}

\* vfe_request_ext_resource after the Info reply: kzalloc of new_fw for
\* the size the backend reported.
FeRetryAlloc ==
    \E t \in RetryTargets :
        LET size == Len(vbe_find_res_hndl(client_tplg, t[1], t[2]).data)
        IN  /\ desc_retry.pc = "idle"
            /\ desc_retry.calls < MaxResCalls
            /\ desc_retry' = [desc_retry EXCEPT
                  !.calls = @ + 1, !.pc = "loop", !.idx = 0,
                  !.regions = Append(@, [state |-> "allocated",
                                         name |-> t[2], type |-> t[1],
                                         dest |-> [i \in 1..size |-> 0]])]
            /\ UNCHANGED nondesc_vars

\* vfe_send_msg_retry: vfe_send_msg posts the Descriptor request of this
\* attempt, with the physical address of new_fw's data, and waits.
FeRetrySend ==
    /\ desc_retry.pc = "loop"
    /\ desc_retry' = [desc_retry EXCEPT
          !.pc = "waiting",
          !.posted = Append(@, [idx |-> desc_retry.idx,
                                call |-> desc_retry.calls])]
    /\ UNCHANGED nondesc_vars

\* The wait of the attempt times out: vfe_send_msg_retry tries again while
\* idx <= VFE_MSG_MAX_RETRY_NUM; after the last attempt
\* vfe_request_ext_resource frees new_fw and returns -ETIMEDOUT.
FeRetryTimeout ==
    /\ desc_retry.pc = "waiting"
    /\ desc_retry' =
          IF RetryLoopContinues(desc_retry.idx, ETIMEDOUT)
          THEN [desc_retry EXCEPT !.pc = "loop", !.idx = @ + 1]
          ELSE [desc_retry EXCEPT
                  !.pc = "idle", !.ret = ETIMEDOUT,
                  !.regions[desc_retry.calls].state = "freed",
                  !.regions[desc_retry.calls].dest = <<>>]
    /\ UNCHANGED nondesc_vars

\* The backend handles the first posted Descriptor request:
\* vbe_skl_cfg_resource_desc maps res_desc->phys_addr and copies the
\* resource there. The attempt the frontend is waiting for is answered
\* and the blob is handed to the caller.
BeRetryDesc ==
    /\ desc_retry.posted # <<>>
    /\ LET req == Head(desc_retry.posted)
           region == desc_retry.regions[req.call]
           size == Len(vbe_find_res_hndl(client_tplg, region.type,
                                         region.name).data)
           r == vbe_skl_cfg_resource_desc(client_tplg,
                    ResMsg("VFE_MSG_CFG_RES_DESC", region.type, region.name,
                           size, 0),
                    region.dest)
           awaited == /\ desc_retry.pc = "waiting"
                      /\ req.call = desc_retry.calls
                      /\ req.idx = desc_retry.idx
       IN  desc_retry' = [desc_retry EXCEPT
              !.posted = Tail(@),
              !.late_copies = IF region.state = "freed" /\ r.ret = 0
                              THEN @ \cup {<<req.call, req.idx>>} ELSE @,
              !.regions[req.call].dest =
                  IF region.state = "freed" THEN @ ELSE r.dest,
              !.regions[req.call].state =
                  IF awaited /\ r.rx.ret >= 0 THEN "handed" ELSE @,
              !.pc = IF awaited THEN "idle" ELSE @,
              !.ret = IF awaited THEN r.rx.ret ELSE @]
    /\ UNCHANGED nondesc_vars

InitExcl ==
    /\ desc_retry = NoDescRetry
    /\ irq_close = NoRace
    /\ list_access = NoAccess
    /\ posn_work = [pending |-> {}, xrun |-> {}, failed |-> 0]

\* ------------------------------------------------- specifications
InitOther == InitPcm /\ InitNot /\ InitKctl /\ InitFe /\ InitSend
             /\ InitGet /\ InitRes /\ InitExcl

Init == InitOther /\ InitPos

Next == PcmOpen \/ PcmClose \/ PcmHwParams \/ PcmPrepare \/ PcmTrigger
        \/ PcmShortPayload \/ PcmOther

Spec == Init /\ [][Next]_vars

NextNot == BeSendKctlMsg \/ BeHandleKickNotRx \/ FeSendQueues
           \/ FeRxMessageLoop

SpecNot == Init /\ [][NextNot]_vars

NextInbox == BeSendKctlMsg \/ BeHandleKickNotRx \/ FeSendQueuesFull
             \/ FeRxMessageLoop \/ DevicePushOtherType

SpecInbox == Init /\ [][NextInbox]_vars

NextKctl == KctlSet \/ KctlOther

SpecKctl == Init /\ [][NextKctl]_vars

NextFe == FePcmOpen \/ FePcmClose \/ FeKctlSet \/ BeHandleNotTx
          \/ FeTxLoopGet \/ FeTxLoopComplete \/ FeTimerExpires
          \/ FeMarkTimedOut \/ FeCallerWakes \/ FeTimeoutHandlerTake
          \/ FeTimeoutHandlerDone

SpecFe == Init /\ [][NextFe]_vars

NextSend == FeCfgCall \/ FePcmCall \/ FeSendAttempt

SpecSend == Init /\ [][NextSend]_vars

NextPos == BeNotifyStoreFirst \/ BeNotifyStoreSecond \/ FeRxStart
           \/ FeRxCheck \/ FeRxCopy \/ FeRxElapsed \/ FePosOpen
           \/ FePosClose \/ FePosTrigger \/ FePrepareStart
           \/ FePrepareStore \/ FePrepareSend

SpecPos == Init /\ [][NextPos]_vars

\* vfe_cmd_handle_rx is a virtqueue callback: once invoked it runs to its
\* end, and a pending interrupt is delivered.
SpecPosLive ==
    /\ Init /\ [][NextPos]_vars
    /\ WF_vars(FeRxStart) /\ WF_vars(FeRxCheck)
    /\ WF_vars(FeRxCopy) /\ WF_vars(FeRxElapsed)

NextGet == FeSubmitChain \/ BeNotTxStart \/ BeNotTxGet \/ BeNotTxEnd

SpecGet == Init /\ [][NextGet]_vars

NextRes == BeCfgDomain \/ FeResInfoSend \/ BeCfgResInfo \/ FeResDescSend
           \/ BeCfgResDesc \/ FeResFinish

SpecRes == Init /\ [][NextRes]_vars

NextExcl == ExclBeSendKctlMsg \/ ExclBeListAddTail \/ ExclBeKickTrySend
            \/ ExclBeListDel \/ FeSendQueues \/ FeRxMessageLoop
            \/ ExclFeKctlSet \/ BeHandleNotTx \/ FeTimerExpires
            \/ FeMarkTimedOut \/ FeCallerWakes \/ FeTxLoopComplete
            \/ ExclFeTxLoopGet \/ ExclFeListAddTail \/ ExclFeTimeoutTake
            \/ ExclFeListDel

SpecExcl == Init /\ [][NextExcl]_vars

\* Both streams have been opened and prepared, and the backend has
\* mapped their descriptors: the state SpecPos is in after FePosOpen,
\* FePrepareStart, three FePrepareStore and FePrepareSend for each stream.
InitPosPrepared ==
    /\ vfe_pos_desc = [s \in PosStreams |-> NewPosDesc]
    /\ pos_info = [s \in PosStreams |-> [open |-> TRUE, running |-> FALSE]]
    /\ be_pos_desc = [s \in PosStreams |-> TRUE]
    /\ be_update = NoUpdate
    /\ cmd_rx_irq = FALSE
    /\ rx_handler = RxIdle
    /\ prepare_call = NoPrepare
    /\ pos_count = [irqs |-> 0, prepares |-> LastPosStream]

NextWake == BeNotifyStoreFirst \/ BeNotifyStoreSecond \/ FeRxStart
            \/ FeRxCheck \/ FeRxCopy \/ FeRxElapsed \/ FePosTrigger
            \/ FeAppFallsBehind \/ FeHandlePosn

InitWake == InitOther /\ InitPosPrepared

NextRetry == FeRetryAlloc \/ FeRetrySend \/ FeRetryTimeout \/ BeRetryDesc

SpecRetry == Init /\ [][NextRetry]_vars

NextIrq == IrqFindSubstreamInfo \/ IrqStore \/ CloseArrives
           \/ CloseUnmap \/ CloseFree

SpecIrq == InitWake /\ [][NextIrq]_vars

\* The wake handler and the work items run to their end once started.
SpecWake ==
    /\ InitWake /\ [][NextWake]_vars
    /\ WF_vars(FeRxStart) /\ WF_vars(FeRxCheck)
    /\ WF_vars(FeRxCopy) /\ WF_vars(FeRxElapsed) /\ WF_vars(FeHandlePosn)

\* The backend's queue handler is invoked for a kick and runs to its end.
SpecGetLive ==
    /\ Init /\ [][NextGet]_vars
    /\ WF_vars(BeNotTxStart) /\ WF_vars(BeNotTxGet) /\ WF_vars(BeNotTxEnd)

\* ------------------------------------------- session registry claims
\* Number of Stream Sessions for (pcm_id, direction) over all clients.
SessionCountIn(lists, pcm_id, direction) ==
    LET n(c) == Cardinality({i \in 1..Len(lists[c]) :
                    /\ lists[c][i].pcm = pcm_id
                    /\ lists[c][i].direction = direction})
    IN  n(1) + n(2)

SessionCount(pcm_id, direction) ==
    SessionCountIn(substr_info_list, pcm_id, direction)

\* The domain the topology makes the owner of a stream (0: none).
PcmOwner(pcm_id, direction) ==
    skl_tplg_fe_get_cpr_module(pcm_id, direction).domain_id

\* A step that handles one PCM message; the message is pcm_reply'.msg.
PcmStep(cmds) ==
    /\ pcm_msgs' = pcm_msgs + 1
    /\ pcm_reply'.msg.cmd \in cmds

SessionCmds == {"VFE_MSG_PCM_CLOSE", "VFE_MSG_PCM_PREPARE",
                "VFE_MSG_PCM_HW_PARAMS", "VFE_MSG_PCM_TRIGGER"}

RegistryUnchanged ==
    /\ substr_info_list' = substr_info_list
    /\ substream' = substream

\* C1: in every reachable backend state, each (pcm_id, direction) has at
\* most one Stream Session over all registered clients.
C1_OneSessionPerStream ==
    \A p \in MsgPcmIds, d \in Directions : SessionCount(p, d) <= 1

\* C1 witness: both streams of pcm1 are held and a further Open of one of
\* them has just been refused.
C1_Witness ==
    /\ SessionCount("pcm1", 0) = 1
    /\ SessionCount("pcm1", 1) = 1
    /\ pcm_reply.msg.cmd = "VFE_MSG_PCM_OPEN"
    /\ pcm_reply.msg.pcm_id = "pcm1"
    /\ pcm_reply.ret = EBUSY

\* C2 as stated: an Open for a (pcm_id, direction) that already has a
\* session fails with Busy and leaves the registry and the substream
\* reference count as they were.
C2_OpenBusy ==
    [][(/\ PcmStep({"VFE_MSG_PCM_OPEN"})
        /\ SessionCount(pcm_reply'.msg.pcm_id, pcm_reply'.msg.direction) > 0)
       => (/\ pcm_reply'.ret = EBUSY
           /\ pcm_reply'.rx = Rx(EBUSY)
           /\ RegistryUnchanged)]_vars

\* C2 amended: such an Open fails with Busy when the envelope's domain id
\* is the stream's owning domain and with PermissionDenied when it is not
\* (the permission check runs before the admission check); in both cases
\* the registry and the reference count are left as they were.
C2_OpenBusyOrDenied ==
    [][(/\ PcmStep({"VFE_MSG_PCM_OPEN"})
        /\ SessionCount(pcm_reply'.msg.pcm_id, pcm_reply'.msg.direction) > 0)
       => LET m == pcm_reply'.msg
              expect == IF m.domain_id = PcmOwner(m.pcm_id, m.direction)
                        THEN EBUSY ELSE EACCES
          IN  /\ pcm_reply'.ret = expect
              /\ pcm_reply'.rx = Rx(expect)
              /\ pcm_reply'.ops = <<>>
              /\ RegistryUnchanged]_vars

\* C2 witness: the owner's second Open of a held stream was refused with
\* Busy, the reference count still being 1.
C2_Witness ==
    /\ pcm_reply.msg.cmd = "VFE_MSG_PCM_OPEN"
    /\ pcm_reply.ret = EBUSY
    /\ pcm_reply.msg.pcm_id = "pcm1"
    /\ substream[<<"pcm1", pcm_reply.msg.direction>>].ref_count = 1
    /\ SessionCount("pcm1", pcm_reply.msg.direction) = 1
    /\ pcm_reply.msg.domain_id = PcmOwner("pcm1", pcm_reply.msg.direction)

\* C3: a Close, Prepare, HwParams or Trigger for a (pcm_id, direction)
\* without a session is rejected with NoSuchStream (-ENODEV), invokes no
\* audio-substream operation and leaves the registry unchanged.
C3_NoSuchStream ==
    [][(/\ PcmStep(SessionCmds)
        /\ SessionCount(pcm_reply'.msg.pcm_id, pcm_reply'.msg.direction) = 0)
       => (/\ pcm_reply'.ret = ENODEV
           /\ pcm_reply'.ops = <<>>
           /\ RegistryUnchanged)]_vars

\* C3 witness: with the playback stream of pcm1 held, a message for its
\* capture stream, which has no session, was rejected.
C3_Witness ==
    /\ pcm_reply.msg.cmd \in SessionCmds
    /\ pcm_reply.msg.pcm_id = "pcm1"
    /\ pcm_reply.msg.direction = 1
    /\ pcm_reply.ret = ENODEV
    /\ SessionCount("pcm1", 0) = 1
    /\ SessionCount("pcm1", 1) = 0

\* The state of a stream's session in the terms of the transition table.
SessionStateIn(lists, subs, pcm_id, direction) ==
    IF SessionCountIn(lists, pcm_id, direction) = 0 THEN "CLOSED"
    ELSE IF subs[<<pcm_id, direction>>].state = "CLOSED" THEN "OPENED"
    ELSE subs[<<pcm_id, direction>>].state

SessionState(pcm_id, direction) ==
    SessionStateIn(substr_info_list, substream, pcm_id, direction)

\* The transition table: the states in which a message is in order.
InOrder(msg, state) ==
    CASE msg.cmd = "VFE_MSG_PCM_OPEN" -> state = "CLOSED"
      [] msg.cmd = "VFE_MSG_PCM_HW_PARAMS" -> state = "OPENED"
      [] msg.cmd = "VFE_MSG_PCM_PREPARE" -> state = "CONFIGURED"
      [] msg.cmd = "VFE_MSG_PCM_TRIGGER" ->
            IF msg.trigger_cmd = "START" THEN state = "PREPARED"
            ELSE state = "RUNNING"
      [] msg.cmd = "VFE_MSG_PCM_CLOSE" -> state # "CLOSED"
      [] OTHER -> FALSE

\* C4: the session state follows the transition table: a PCM message that
\* arrives out of order is rejected with an error and does not change the
\* session state.
C4_TransitionTable ==
    [][(/\ PcmStep(SessionCmds \cup {"VFE_MSG_PCM_OPEN"})
        /\ pcm_reply'.msg.pcm_id \in CardPcms
        /\ ~InOrder(pcm_reply'.msg,
                    SessionState(pcm_reply'.msg.pcm_id,
                                 pcm_reply'.msg.direction)))
       => (/\ pcm_reply'.ret < 0
           /\ SessionStateIn(substr_info_list', substream',
                             pcm_reply'.msg.pcm_id, pcm_reply'.msg.direction)
                = SessionState(pcm_reply'.msg.pcm_id,
                               pcm_reply'.msg.direction))]_vars

\* C5: an Open whose domain id differs from the stream's resolved owner
\* fails with PermissionDenied and creates no session; an Open by the
\* owner on a stream that is not open passes the permission check (it
\* succeeds, or fails only on an allocation or in the substream's open).
C5_OpenPermission ==
    [][(/\ PcmStep({"VFE_MSG_PCM_OPEN"})
        /\ pcm_reply'.msg.pcm_id \in CardPcms
        /\ PcmOwner(pcm_reply'.msg.pcm_id, pcm_reply'.msg.direction) # 0)
       => LET m == pcm_reply'.msg
              s == <<m.pcm_id, m.direction>>
          IN  IF m.domain_id # PcmOwner(m.pcm_id, m.direction)
              THEN /\ pcm_reply'.ret = EACCES
                   /\ pcm_reply'.rx = Rx(EACCES)
                   /\ RegistryUnchanged
              ELSE substream[s].ref_count = 0
                   => /\ pcm_reply'.ret \in {0, ENOMEM, EIO}
                      /\ pcm_reply'.ret = 0
                         => /\ SessionCountIn(substr_info_list',
                                              m.pcm_id, m.direction) = 1
                            /\ substream'[s].ref_count = 1]_vars

\* C5 witness: domain 2 holds its own stream, pcm1 capture, after a
\* successful Open, and its Open of pcm1 playback (owner: domain 1), which
\* nobody holds, was refused.
C5_Witness ==
    /\ pcm_reply.msg.cmd = "VFE_MSG_PCM_OPEN"
    /\ pcm_reply.msg.pcm_id = "pcm1"
    /\ pcm_reply.msg.direction = 0
    /\ pcm_reply.msg.domain_id = 2
    /\ pcm_reply.ret = EACCES
    /\ SessionCount("pcm1", 0) = 0
    /\ SessionCount("pcm1", 1) = 1
    /\ substream[<<"pcm1", 1>>].state = "OPENED"

\* C6: a Close, Prepare, HwParams or Trigger whose envelope domain id is
\* not the domain that owns the targeted session is rejected and does not
\* change or destroy that session.
C6_ForeignDomainRejected ==
    [][(/\ PcmStep(SessionCmds)
        /\ SessionCount(pcm_reply'.msg.pcm_id, pcm_reply'.msg.direction) > 0
        /\ pcm_reply'.msg.domain_id
             # PcmOwner(pcm_reply'.msg.pcm_id, pcm_reply'.msg.direction))
       => (/\ pcm_reply'.ret < 0
           /\ RegistryUnchanged)]_vars

\* ------------------------------------------- mixer control claims
\* The owning domain the card's configuration gives each control: the
\* static map lists Speaker Switch for domain 1, the mic widget's topology
\* lists Mic Gain for domain 2 first (0: no owner).
KctlOwner(name) ==
    CASE name = "Speaker Switch" -> 1
      [] name = "Mic Gain" -> 2
      [] OTHER -> 0

\* C7: a control-value-set for a control owned by D1 issued with another
\* domain id fails with PermissionDenied and leaves the control value as it
\* was; issued with D1 it succeeds and the control takes the value.
C7_KctlPermission ==
    [][(/\ kctl_msgs' = kctl_msgs + 1
        /\ kctl_reply'.msg.cmd = "VFE_MSG_KCTL_SET"
        /\ KctlOwner(kctl_reply'.msg.desc.kcontrol_id) # 0)
       => LET m == kctl_reply'.msg
              name == m.desc.kcontrol_id
          IN  IF m.domain_id = KctlOwner(name)
              THEN /\ kctl_reply'.ret = 0
                   /\ kctl_value' = [kctl_value EXCEPT ![name] = m.tx_data]
              ELSE /\ kctl_reply'.ret = EACCES
                   /\ kctl_value' = kctl_value]_vars

\* C7 witness: domain 2, the owner, had set Mic Gain to 1, and domain 1's
\* request to set it to 0 was refused.
C7_Witness ==
    /\ kctl_reply.msg.cmd = "VFE_MSG_KCTL_SET"
    /\ kctl_reply.msg.desc.kcontrol_id = "Mic Gain"
    /\ kctl_reply.msg.domain_id = 1
    /\ kctl_reply.msg.tx_data = 0
    /\ kctl_reply.ret = EACCES
    /\ kctl_value["Mic Gain"] = 1

\* The control of the card with that name.
C34_Control(name) ==
    CHOOSE k \in {CardKcontrols[i] : i \in 1..Len(CardKcontrols)} :
        k.name = name

\* d is what the first entry of table with that name holds in field, and 0
\* when no entry has the name.
C34_FirstMatch(table, name, field, d) ==
    \/ /\ \A i \in 1..Len(table) : table[i].name # name
       /\ d = 0
    \/ \E i \in 1..Len(table) :
          /\ table[i].name = name
          /\ \A j \in 1..(i - 1) : table[j].name # name
          /\ d = table[i][field]

\* The owner as stated: the widget's table for a control a widget lists,
\* the static table for a control no widget lists.
C34_StatedOwner(k, d) ==
    IF k.widget # ""
    THEN C34_FirstMatch(WidgetKctlDomains(k.widget), k.name, "domain_id", d)
    ELSE C34_FirstMatch(kctl_domain_map, k.name, "domain_flag", d)

\* The owner by what the control's private data points at: the static
\* table for a control of the platform component or of the card; for any
\* other control the table of the widget that lists it, and 0 when no
\* widget lists it.
C34_PrivOwner(k, d) ==
    IF k.priv \in {"component", "card"}
    THEN C34_FirstMatch(kctl_domain_map, k.name, "domain_flag", d)
    ELSE IF k.widget # ""
    THEN C34_FirstMatch(WidgetKctlDomains(k.widget), k.name, "domain_id", d)
    ELSE d = 0

Delivered ==
    inbox_seen \o [i \in 1..Len(not_rx_used) |-> not_rx_used[i].msg.id]

PendingIds ==
    [i \in 1..Len(pending_msg_list) |-> pending_msg_list[i].msg.id]

WasEnqueued(id) == \E i \in 1..Len(enqueue_log) : enqueue_log[i] = id

\* C8: the notifications that were saved on the Pending queue reach the
\* channel in exactly the order in which they were saved, and those still
\* pending wait in that order.
C8_PendingFifo ==
    SelectSeq(Delivered, WasEnqueued) \o PendingIds = enqueue_log

\* C8 witness: three notifications were saved while the channel had no
\* free slot and all three have since been delivered.
C8_Witness ==
    /\ Len(enqueue_log) >= 3
    /\ Len(pending_msg_list) = 0
    /\ SelectSeq(Delivered, WasEnqueued) = enqueue_log
    /\ Len(inbox_seen) >= 2

\* C9: notifications reach the frontend in the order in which they were
\* submitted, whatever the interleaving of sends and channel-ready signals.
C9_SubmissionOrder ==
    \A i, j \in 1..Len(Delivered) : i < j => Delivered[i] < Delivered[j]

UsedIds == [i \in 1..Len(not_rx_used) |-> not_rx_used[i].msg.id]

\* The notification with that id is pending or on the channel, not yet
\* taken by the frontend.
InFlight(id) ==
    \/ \E i \in 1..Len(PendingIds) : PendingIds[i] = id
    \/ \E i \in 1..Len(UsedIds) : UsedIds[i] = id

\* Ids no notification in flight carries.
FreeIds == {id \in 1..MaxNotis : ~InFlight(id)}

\* vbe_send_kctl_msg without a limit on the number of kcontrol changes: a
\* new notification takes the smallest id no notification in flight has.
BeSendKctlMsgLive ==
    \E change \in KctlChanges :
        /\ FreeIds # {}
        /\ LET id == CHOOSE i \in FreeIds : \A j \in FreeIds : i <= j
               r == vbe_send_kctl_msg(NotQ, id, change[1], change[2])
           IN  /\ noti_sent' = id
               /\ pending_msg_list' = r.q.pending
               /\ not_rx_avail' = r.q.vq.avail
               /\ not_rx_used' = r.q.vq.used
               /\ send_result' = [ret |-> r.ret, id |-> id,
                                  kcontrol_id |-> change[1],
                                  value |-> change[2],
                                  result_ret |-> r.result_ret]
        /\ UNCHANGED <<fe_vars, not_rx_kick, inbox_seen, inbox_free, enqueue_log,
                       pcm_vars, kctl_vars>>

\* One iteration of vfe_rx_message_loop, remembering only the notification
\* taken last.
FeRxMessageLoopLive ==
    /\ Len(not_rx_used) > 0
    /\ inbox_seen' = <<Head(not_rx_used).msg.id>>
    /\ not_rx_used' = Tail(not_rx_used)
    /\ not_rx_avail' = vfe_put_inbox_buffer(not_rx_avail,
                                            Head(not_rx_used).iov_len)
    /\ not_rx_kick' = TRUE
    /\ UNCHANGED <<fe_vars, pending_msg_list, inbox_free, noti_sent, send_result,
                   enqueue_log, pcm_vars, kctl_vars>>

NextNotLive == BeSendKctlMsgLive \/ BeHandleKickNotRx \/ FeSendQueues
               \/ FeRxMessageLoopLive

\* The frontend posts its buffers and returns each one it drains, and the
\* backend handles every kick: the work items and the kick handler run
\* whenever they have something to do.
SpecNotLive ==
    /\ Init
    /\ [][NextNotLive]_vars
    /\ WF_vars(BeHandleKickNotRx)
    /\ WF_vars(FeSendQueues)
    /\ WF_vars(FeRxMessageLoopLive)

\* C11: every notification the backend submits is eventually taken by the
\* frontend, and exactly once: it is never in flight twice, and once in
\* flight it eventually leaves the Pending queue and the channel.
C11_DeliveredOnce ==
    /\ [](\A id \in 1..MaxNotis :
            Cardinality({i \in 1..Len(PendingIds) : PendingIds[i] = id})
            + Cardinality({i \in 1..Len(UsedIds) : UsedIds[i] = id}) <= 1)
    /\ \A id \in 1..MaxNotis : InFlight(id) ~> ~InFlight(id)
\* ---------------------------------------- claims: request timeout
\* The caller of message id returns from the timed-out wait in this step.
TimesOut(id) ==
    /\ fe_msg[id].caller = "timer_expired"
    /\ fe_msg'[id].caller = "returned"

\* C12: when the timer of a waiting request runs out before the request
\* was completed, the request's status becomes timed out, the call returns
\* -ETIMEDOUT, and the request stays where it is: nothing is taken off the
\* NOT_TX queue.
C12_TimeoutMarksAndFails ==
    [][\A id \in 1..Len(fe_msg) :
          TimesOut(id) =>
            /\ fe_msg'[id].status = "VFE_MSG_TIMED_OUT"
            /\ fe_msg'[id].ret = ETIMEDOUT
            /\ fe_msg'[id].place = fe_msg[id].place
            /\ not_tx_avail' = not_tx_avail
            /\ not_tx_used' = not_tx_used]_vars

\* A call returned -ETIMEDOUT and its request, marked timed out, is still
\* on the NOT_TX queue, not yet handled by the backend.
C12_Witness ==
    \E id \in 1..Len(fe_msg) :
        /\ fe_msg[id].caller = "returned"
        /\ fe_msg[id].ret = ETIMEDOUT
        /\ fe_msg[id].status = "VFE_MSG_TIMED_OUT"
        /\ fe_msg[id].place = "avail"
        /\ \E i \in 1..Len(not_tx_avail) : not_tx_avail[i] = id

\* C13: once a call returned -ETIMEDOUT, the completion loop never copies
\* the late reply into the caller's reply buffer and never writes the
\* caller's completion flag: no store of the loop lands in the frame the
\* caller has left.
C13_NoLateCompletion ==
    \A id \in 1..Len(fe_msg) :
        (fe_msg[id].caller = "returned" /\ fe_msg[id].ret = ETIMEDOUT) =>
            fe_msg[id].late_writes = 0

\* ------------------------------- claims: compensation of a timed-out Open
\* The frontend request path with its scheduling: the backend's queue
\* handler and the frontend's two work items run whenever they have
\* something to do, and a waiting caller is woken or timed out.
MaxLiveMsgs == 2

RoomLive(n) ==
    /\ Len(fe_msg) + Reserved + n <= MaxLiveMsgs
    /\ \A i \in 1..Len(fe_msg) :
          fe_msg[i].by = "user" => fe_msg[i].caller = "returned"

\* vfe_pcm_open up to the wait.
FePcmOpenLive ==
    /\ RoomLive(2)
    /\ LET s == vfe_send_msg_with_timeout(fe_msg, not_tx_avail,
                                          "VFE_MSG_PCM_OPEN", "user", EIO)
       IN  fe_msg' = s.msgs /\ not_tx_avail' = s.avail
    /\ UNCHANGED <<aux_vars, not_tx_used, expired_msg_list, tx_loop_msg, timeout_work,
                   vfe_substr_info, pcm_vars, not_vars, kctl_vars>>

\* vfe_pcm_close up to the wait.
FePcmCloseLive ==
    /\ RoomLive(1)
    /\ vfe_substr_info' = [vfe_substr_info EXCEPT !.open = FALSE]
    /\ LET s == vfe_send_msg_with_timeout(fe_msg, not_tx_avail,
                                          "VFE_MSG_PCM_CLOSE", "user", 0)
       IN  fe_msg' = s.msgs /\ not_tx_avail' = s.avail
    /\ UNCHANGED <<aux_vars, not_tx_used, expired_msg_list, tx_loop_msg, timeout_work,
                   pcm_vars, not_vars, kctl_vars>>

NextFeLive == FePcmOpenLive \/ FePcmCloseLive \/ BeHandleNotTx
              \/ FeTxLoopGet \/ FeTxLoopComplete \/ FeTimerExpires
              \/ FeMarkTimedOut \/ FeCallerWakes \/ FeTimeoutHandlerTake
              \/ FeTimeoutHandlerDone

SpecFeLive ==
    /\ Init /\ [][NextFeLive]_vars
    /\ WF_vars(BeHandleNotTx)
    /\ WF_vars(FeTxLoopGet) /\ WF_vars(FeTxLoopComplete)
    /\ WF_vars(FeMarkTimedOut) /\ WF_vars(FeCallerWakes)
    /\ WF_vars(FeTimeoutHandlerTake) /\ WF_vars(FeTimeoutHandlerDone)

\* Open id timed out at the frontend while it was still in the channel:
\* the backend has not handled it yet, or the completion loop has not
\* drained it yet.
OpenTimedOutEarly(id) ==
    /\ id <= Len(fe_msg)
    /\ fe_msg[id].cmd = "VFE_MSG_PCM_OPEN"
    /\ fe_msg[id].status = "VFE_MSG_TIMED_OUT"
    /\ fe_msg[id].place \in {"avail", "used"}

\* The timeout handler took message id, sent a Close for its stream, and
\* the backend has handled that Close and holds no session of the stream.
Compensated(id) ==
    /\ id <= Len(fe_msg)
    /\ fe_msg[id].handled > 0
    /\ \E c \in (id + 1)..Len(fe_msg) :
          /\ fe_msg[c].cmd = "VFE_MSG_PCM_CLOSE"
          /\ fe_msg[c].by = "work"
          /\ fe_msg[c].place # "avail"
    /\ SessionCount(FePcmId, FeDirection) = 0

ViaNormal(m) ==
    m.normal = 1 /\ m.expired = 0 /\ m.handled = 0 /\ m.frees = 1

\* The request went to the expired list, was taken by the timeout handler
\* once, and was freed by it.
ViaExpired(m) ==
    m.normal = 0 /\ m.expired = 1 /\ m.handled = 1 /\ m.frees = 1

C16_RetryPolicy ==
    LET n == Len(send_call.log)
    IN  /\ send_call.retry =>
              /\ n <= VFE_MSG_MAX_RETRY_NUM + 1
              /\ \A i \in 1..(n - 1) : send_call.log[i] = ETIMEDOUT
              /\ send_call.pc = "done" =>
                    /\ n >= 1
                    /\ send_call.ret = send_call.log[n]
                    /\ (send_call.log[n] # ETIMEDOUT
                        \/ n = VFE_MSG_MAX_RETRY_NUM + 1)
              /\ send_call.pc = "loop" =>
                    \A i \in 1..n : send_call.log[i] = ETIMEDOUT
        /\ (send_call.cmd \in PcmCallCmds) =>
              /\ ~send_call.retry
              /\ n <= 1
              /\ send_call.pc = "done" =>
                    (n = 1 /\ send_call.ret = send_call.log[1])

\* The last of the calls followed is a configuration call that timed out
\* on every attempt but the last one allowed, which succeeded.
C16_Witness ==
    /\ send_call.retry /\ send_call.pc = "done"
    /\ Len(send_call.log) = VFE_MSG_MAX_RETRY_NUM + 1
    /\ send_call.ret = 0
    /\ send_call.calls = MaxSendCalls

C18_NoStalePosition ==
    ~rx_handler.stale

\* C19: fe_irq_cnt of a stream never exceeds its be_irq_cnt.
C19_FeNotAhead ==
    \A s \in PosStreams :
        vfe_pos_desc[s].fe_irq_cnt <= vfe_pos_desc[s].be_irq_cnt

\* The wake handler takes a step in which it was at pc on stream s.
RxStepAt(pc, s) ==
    /\ rx_handler.pc = pc
    /\ rx_handler.idx = s
    /\ rx_handler' # rx_handler

\* Every stream but s keeps its descriptor, and s keeps hw_ptr and
\* be_irq_cnt.
OnlyFeCountOf(s) ==
    /\ \A o \in PosStreams \ {s} : vfe_pos_desc'[o] = vfe_pos_desc[o]
    /\ vfe_pos_desc'[s].hw_ptr = vfe_pos_desc[s].hw_ptr
    /\ vfe_pos_desc'[s].be_irq_cnt = vfe_pos_desc[s].be_irq_cnt

\* C20: on a wake signal the handler goes through the streams; it acts on
\* a stream exactly when the stream is open and running, its be_irq_cnt
\* differs from its fe_irq_cnt and its substream is not locked. For such a
\* stream it stores the be_irq_cnt it loaded into fe_irq_cnt (the value in
\* memory when no write came in between) and invokes period-elapsed for it;
\* it changes nothing else, and nothing of a stream it skips.
C20_WakeFrame ==
    [][\A s \in PosStreams :
          /\ RxStepAt("check", s) =>
                /\ vfe_pos_desc' = vfe_pos_desc
                /\ rx_handler'.elapsed = rx_handler.elapsed
                /\ (rx_handler'.pc = "copy" /\ rx_handler'.idx = s) <=>
                      /\ pos_info[s].open
                      /\ pos_info[s].running
                      /\ vfe_pos_desc[s].be_irq_cnt
                            # vfe_pos_desc[s].fe_irq_cnt
                      /\ ~rx_handler'.locked
          /\ RxStepAt("copy", s) =>
                /\ OnlyFeCountOf(s)
                /\ vfe_pos_desc'[s].fe_irq_cnt
                      \in {vfe_pos_desc[s].be_irq_cnt, rx_handler.be_read}
                /\ rx_handler.read_seq = vfe_pos_desc[s].be_seq =>
                      vfe_pos_desc'[s].fe_irq_cnt
                         = vfe_pos_desc[s].be_irq_cnt
                /\ rx_handler'.pc = "elapsed" /\ rx_handler'.idx = s
                /\ rx_handler'.elapsed = rx_handler.elapsed
          /\ RxStepAt("elapsed", s) =>
                /\ vfe_pos_desc' = vfe_pos_desc
                /\ rx_handler'.elapsed = rx_handler.elapsed \cup {s}]_vars

\* A handler run has finished that acted on stream 1 (counters equal,
\* period-elapsed invoked) and skipped stream 2, which is open and running
\* with an interrupt not yet counted, because its substream was locked.
C20_Witness ==
    /\ rx_handler.pc = "idle"
    /\ rx_handler.elapsed = {1}
    /\ vfe_pos_desc[1].fe_irq_cnt = 1 /\ vfe_pos_desc[1].be_irq_cnt = 1
    /\ pos_info[2].open /\ pos_info[2].running
    /\ vfe_pos_desc[2].be_irq_cnt = 1 /\ vfe_pos_desc[2].fe_irq_cnt = 0
    /\ rx_handler.locked

\* C21: when the difference the wake handler computes for a stream is
\* greater than 1 it logs missed interrupts, and only then; in either case
\* it stores a be_irq_cnt it loaded into fe_irq_cnt and goes on to
\* period-elapsed, which runs once for the stream in that wake, after
\* which the handler moves to the next stream: the gap ends nothing.
C21_MissedInterrupts ==
    [][\A s \in PosStreams :
          /\ RxStepAt("copy", s) =>
                /\ rx_handler'.irq_diff
                      \in {vfe_pos_desc[s].be_irq_cnt
                              - vfe_pos_desc[s].fe_irq_cnt,
                           rx_handler.be_read - vfe_pos_desc[s].fe_irq_cnt}
                /\ rx_handler'.missed <=> rx_handler'.irq_diff > 1
                /\ vfe_pos_desc'[s].fe_irq_cnt
                      \in {vfe_pos_desc[s].be_irq_cnt, rx_handler.be_read}
                /\ rx_handler'.pc = "elapsed" /\ rx_handler'.idx = s
                /\ s \notin rx_handler.elapsed
          /\ RxStepAt("elapsed", s) =>
                /\ s \notin rx_handler.elapsed
                /\ rx_handler'.elapsed = rx_handler.elapsed \cup {s}
                /\ rx_handler'.pc = IF s = LastPosStream THEN "idle"
                                    ELSE "check"]_vars

\* The handler found stream 1 two interrupts ahead, logged it, set
\* fe_irq_cnt to 2 and is about to run period-elapsed for the stream.
C21_Witness ==
    /\ rx_handler.pc = "elapsed" /\ rx_handler.idx = 1
    /\ rx_handler.irq_diff = 2
    /\ rx_handler.missed
    /\ vfe_pos_desc[1].be_irq_cnt = 2
    /\ vfe_pos_desc[1].fe_irq_cnt = 2

\* C22: a stream the wake handler passed over only because its substream
\* was locked has its update applied later (fe_irq_cnt made equal to
\* be_irq_cnt), unless the stream is stopped or closed first.
C22_LockedUpdateApplied ==
    \A s \in PosStreams :
        (s \in rx_handler.passed_locked) ~>
            \/ vfe_pos_desc[s].fe_irq_cnt = vfe_pos_desc[s].be_irq_cnt
            \/ ~pos_info[s].open
            \/ ~pos_info[s].running

\* C23: when a Close of a stream has been handled, every entry of the
\* stream's scatter table has its native value again, the session is gone
\* from the registry and the stream is not in use, so that an Open of it
\* is admitted.
C23_CloseRestores ==
    pcm_reply.ops = <<"close">> =>
        LET s == <<pcm_reply.msg.pcm_id, pcm_reply.msg.direction>>
        IN  /\ substream[s].table = NativeTable(s)
            /\ SessionCount(s[1], s[2]) = 0
            /\ ~StreamBusy(substream[s])

\* C24: when the backend rejects or fails a PCM request of a frontend
\* operation (its handler returns an error), the frontend operation that
\* sent the request returns an error too.
C24_RejectionSurfaces ==
    (/\ pcm_reply.msg.cmd \in SessionCmds \cup {"VFE_MSG_PCM_OPEN"}
     /\ pcm_reply.ret < 0)
        => pcm_fe_ret < 0

\* The ids of the released chains, and of those released whose header
\* buffer had the protocol's header size.
ReleasedIds == [i \in 1..Len(be_not_tx.used) |-> be_not_tx.used[i][1]]
WellSizedIds ==
    SelectSeq(ReleasedIds,
              LAMBDA id : \E i \in 1..Len(be_not_tx.used) :
                             /\ be_not_tx.used[i][1] = id
                             /\ be_not_tx.used[i][2] = SizeofMsgHeader)

\* C25: a chain whose header buffer does not have the protocol's header
\* size is passed to no handler and changes nothing at the backend (no
\* session, substream, control value or reply record), yet it is released
\* to the frontend like any other and the loop goes on; the chains handed
\* to a handler are exactly the released ones with a well-sized header, in
\* order; and every chain submitted is released in the end.
C25_BadHeaderSkipped ==
    /\ [][(/\ be_not_tx.running
           /\ be_not_tx.avail # <<>>
           /\ be_not_tx'.avail = Tail(be_not_tx.avail)
           /\ Head(be_not_tx.avail).header_len # SizeofMsgHeader)
          => /\ UNCHANGED <<pcm_vars, kctl_vars>>
             /\ be_not_tx'.dispatched = be_not_tx.dispatched
             /\ be_not_tx'.used =
                   Append(be_not_tx.used,
                          <<Head(be_not_tx.avail).id,
                            Head(be_not_tx.avail).header_len>>)
             /\ be_not_tx'.running]_vars
    /\ [](be_not_tx.dispatched = WellSizedIds)
    /\ \A id \in 1..MaxChains :
          (be_not_tx.sent >= id) ~>
              (\E i \in 1..Len(be_not_tx.used) : be_not_tx.used[i][1] = id)

\* A chain with a short header was released without being handled, and
\* the chain after it, an Open, was handled and created the session.
C25_Witness ==
    /\ Len(be_not_tx.used) = 2
    /\ be_not_tx.used[1] = <<1, SizeofMsgHeader - 1>>
    /\ be_not_tx.used[2] = <<2, SizeofMsgHeader>>
    /\ be_not_tx.dispatched = <<2>>
    /\ pcm_reply.msg.cmd = "VFE_MSG_PCM_OPEN" /\ pcm_reply.ret = 0
    /\ SessionCount(FePcmId, FeDirection) = 1

\* C26: when the Descriptor request of a call resolved the same resource
\* as its Info request, the backend answers it with status 0, the
\* destination region then holds exactly the bytes of the resource, as
\* many as Info reported, and the call returns a non-negative value with a
\* blob of that size and content.
C26_InfoThenDescriptor ==
    LET c == res_req.call
    IN  (/\ c.pc \in {"desc_reply", "done"}
         /\ c.desc_fw.found
         /\ c.desc_fw = c.info_fw)
            => /\ c.be_ret >= 0
               /\ c.rx.rx.ret >= 0
               /\ c.rx.rx.size = Len(c.info_fw.data)
               /\ c.new_fw = c.info_fw.data
               /\ c.pc = "done" =>
                     /\ c.ret >= 0
                     /\ c.fw = Fw(c.info_fw.data)

\* A call for the topology has returned 0 with the two-byte blob the
\* client was given.
C26_Witness ==
    /\ res_req.call.pc = "done"
    /\ res_req.call.type = "VFE_TOPOLOGY_RES"
    /\ res_req.call.ret = 0
    /\ res_req.call.info_fw = Fw(<<8, 9>>)
    /\ res_req.call.fw = Fw(<<8, 9>>)

\* C27: when the resource the Descriptor request resolves has another
\* size than the request gives, the backend answers -EINVAL and leaves
\* the destination region as it was, and the call returns an error and
\* hands out no blob; an Info request for a resource that is not found is
\* answered -EBADF with size 0.
C27_SizeMismatch ==
    LET c == res_req.call
        mismatch == /\ c.desc_fw.found
                    /\ Len(c.desc_fw.data) # c.rx.rx.size
    IN  /\ (c.pc = "desc_reply" /\ mismatch) =>
              /\ c.be_ret = EINVAL
              /\ c.rx.rx.ret = EINVAL
              /\ c.new_fw = [i \in 1..c.rx.rx.size |-> 0]
        /\ (c.pc = "done" /\ mismatch) =>
              /\ c.ret < 0
              /\ ~c.fw.found
              /\ c.new_fw = <<>>
        /\ (c.pc = "info_reply" /\ ~c.info_fw.found) =>
              /\ c.be_ret = EBADF
              /\ c.rx.rx.size = 0

\* The topology was one byte long at the Info request and two bytes long
\* at the Descriptor request, and the call has returned -EINVAL without a
\* blob.
C27_Witness ==
    /\ res_req.call.pc = "done"
    /\ res_req.call.info_fw = Fw(<<7>>)
    /\ res_req.call.desc_fw = Fw(<<8, 9>>)
    /\ res_req.call.ret = EINVAL
    /\ ~res_req.call.fw.found

\* The stream of an entry of the registry.
StreamOf(info) == <<info.pcm, info.direction>>

\* C28: with several clients registered, the sessions are kept apart by
\* owner: a session is created by an Open from the domain that owns the
\* stream and is stored under that domain's client, so no client's list
\* holds successfully opened sessions of two different domains.
C28_SessionsUnderOwnClient ==
    Len(client_list) > 1 =>
        \A c \in Clients :
            \A i, j \in 1..Len(substr_info_list[c]) :
                LET a == StreamOf(substr_info_list[c][i])
                    b == StreamOf(substr_info_list[c][j])
                IN  (substream[a].state # "CLOSED"
                     /\ substream[b].state # "CLOSED")
                        => PcmOwner(a[1], a[2]) = PcmOwner(b[1], b[2])

\* C29: an Open that returns an error creates nothing: the registry holds
\* the same sessions as before and the stream's use count is unchanged.
C29_FailedOpenCreatesNothing ==
    [][(/\ PcmStep({"VFE_MSG_PCM_OPEN"})
        /\ pcm_reply'.ret < 0)
       => /\ substr_info_list' = substr_info_list
          /\ \A s \in Streams :
                substream'[s].ref_count = substream[s].ref_count]_vars

\* C30: a PCM message for a stream with a session whose tx or rx buffer
\* does not have the size of the opcode's payload is rejected with -EINVAL
\* and not acted on: no substream operation runs and the registry and the
\* substreams are unchanged.
C30_PayloadSizesValidated ==
    [][(/\ PcmStep(PcmCmds)
        /\ \E c \in Clients :
              \E i \in 1..Len(substr_info_list[c]) :
                 StreamOf(substr_info_list[c][i])
                    = <<pcm_reply'.msg.pcm_id, pcm_reply'.msg.direction>>
        /\ \/ pcm_reply'.msg.tx_size # PcmSizeofTx(pcm_reply'.msg.cmd)
           \/ pcm_reply'.msg.rx_size # SizeofPcmResult)
       => /\ pcm_reply'.ret = EINVAL
          /\ pcm_reply'.ops = <<>>
          /\ RegistryUnchanged]_vars

\* C31: no two tasks are inside a list operation on the same list at the
\* same time: vbe_skl_send_or_enqueue and vbe_skl_ipc_fe_not_reply_get on
\* the pending queue, vfe_tx_message_loop and vfe_not_tx_timeout_handler
\* on the expired list.
C31_ListsExclusive ==
    /\ ~(list_access.be_send # <<>> /\ list_access.be_drain # <<>>)
    /\ ~(list_access.fe_loop # <<>> /\ list_access.fe_work # <<>>)

\* C32: a drain of the pending queue for a channel-ready signal submits
\* entries from the head, in order, and removes exactly the entries it
\* submitted; the entries left are the rest of the queue in their original
\* order, and entries are left only when the submit of the first of them
\* failed, that is when the channel has no buffer.
C32_DrainStopsAtFirstFailure ==
    [][(not_rx_kick /\ ~not_rx_kick')
       => LET n == Len(pending_msg_list) - Len(pending_msg_list')
          IN  /\ n >= 0
              /\ pending_msg_list' =
                    SubSeq(pending_msg_list, n + 1, Len(pending_msg_list))
              /\ Len(not_rx_used') = Len(not_rx_used) + n
              /\ \A i \in 1..n :
                    not_rx_used'[Len(not_rx_used) + i].msg
                       = pending_msg_list[i].msg
              /\ SubSeq(not_rx_used', 1, Len(not_rx_used)) = not_rx_used
              /\ pending_msg_list' # <<>> => not_rx_avail' = <<>>]_vars

\* A drain submitted the first message that was saved and stopped at the
\* second, which is now the head of the queue.
C32_Witness ==
    /\ ~not_rx_kick
    /\ Len(enqueue_log) >= 2
    /\ pending_msg_list # <<>>
    /\ pending_msg_list[1].msg.id = enqueue_log[2]
    /\ not_rx_avail = <<>>
    /\ \E i \in 1..Len(not_rx_used) :
          not_rx_used[i].msg.id = enqueue_log[1]

\* C33: when vfe_pcm_period_elapsed fails for a stream during the wake
\* handler, the stream's own update_work is queued and no other, the
\* recovery is not run by the handler (the stream is neither stopped nor
\* taken out of its xrun there), the handler moves on to the next stream
\* of the list, and the pass comes to its end.
C33_FailureQueuedNotInline ==
    /\ [][(/\ rx_handler.pc = "elapsed"
           /\ rx_handler' # rx_handler
           /\ rx_handler.idx \in posn_work.xrun)
          => LET s == rx_handler.idx
             IN  /\ posn_work'.pending = posn_work.pending \cup {s}
                 /\ posn_work'.xrun = posn_work.xrun
                 /\ pos_info' = pos_info
                 /\ rx_handler'.idx =
                       IF s = LastPosStream THEN 0 ELSE s + 1
                 /\ rx_handler'.pc =
                       IF s = LastPosStream THEN "idle" ELSE "check"]_vars
    /\ \A s \in PosStreams :
          (posn_work.failed = s /\ rx_handler.pc # "idle")
              ~> (rx_handler.pc = "idle")

\* Period-elapsed failed for the first stream, whose work item is
\* pending, and the same pass went on to run period-elapsed for the
\* second stream.
C33_Witness ==
    /\ rx_handler.pc = "idle"
    /\ rx_handler.elapsed = {1, 2}
    /\ 1 \in posn_work.xrun /\ 2 \notin posn_work.xrun
    /\ posn_work.pending = {1}
    /\ pos_info[1].running

\* C35: a Prepare for a stream with a session whose DMA address has no
\* host translation, or whose Position Descriptor region cannot be mapped,
\* fails with -EINVAL, the substream's prepare is not invoked, and the
\* session and the substream (scatter table, native address, descriptor
\* binding) are left as they were.
C35_FailedPrepareChangesNothing ==
    [][(/\ PcmStep({"VFE_MSG_PCM_PREPARE"})
        /\ \E c \in Clients :
              \E i \in 1..Len(substr_info_list[c]) :
                 StreamOf(substr_info_list[c][i])
                    = <<pcm_reply'.msg.pcm_id, pcm_reply'.msg.direction>>
        /\ \/ vhm_vm_gpa2hpa(0, pcm_reply'.msg.dma_addr) = 0
           \/ map_guest_phys(0, pcm_reply'.msg.stream_pos_addr, 0) = NULL)
       => /\ pcm_reply'.ret = EINVAL
          /\ pcm_reply'.ops = <<>>
          /\ RegistryUnchanged]_vars

\* C36: when the timeout handler takes an expired request that is not a
\* PCM Open (a Close or a control request here), the request is removed
\* from the head of the expired list and freed once, no message is
\* allocated or posted to the backend and the frontend's session flags are
\* unchanged; a message is sent by the handler only in a step that takes an
\* expired PCM Open, and that message is a Close.
C36_OnlyOpenCompensated ==
    [][/\ \A id \in 1..Len(fe_msg) :
            (/\ fe_msg'[id].handled = fe_msg[id].handled + 1
             /\ fe_msg[id].cmd # "VFE_MSG_PCM_OPEN")
            => /\ expired_msg_list # <<>> /\ Head(expired_msg_list) = id
               /\ expired_msg_list' = Tail(expired_msg_list)
               /\ fe_msg'[id].place = "freed"
               /\ fe_msg'[id].frees = fe_msg[id].frees + 1
               /\ Len(fe_msg') = Len(fe_msg)
               /\ not_tx_avail' = not_tx_avail
               /\ vfe_substr_info' = vfe_substr_info
               /\ timeout_work' = NoWork
       /\ (/\ Len(fe_msg') > Len(fe_msg)
           /\ fe_msg'[Len(fe_msg')].by = "work")
          => /\ expired_msg_list # <<>>
             /\ fe_msg[Head(expired_msg_list)].cmd = "VFE_MSG_PCM_OPEN"
             /\ fe_msg'[Len(fe_msg')].cmd = "VFE_MSG_PCM_CLOSE"]_vars

\* C36 witness: a timed-out Close and a timed-out control request were
\* both taken by the timeout handler and freed, and the only messages ever
\* allocated are the three of the user's calls.
C36_Witness ==
    /\ Len(fe_msg) = 3
    /\ \A id \in 1..3 : fe_msg[id].by = "user"
    /\ \E i, j \in 1..3 :
          /\ fe_msg[i].cmd = "VFE_MSG_PCM_CLOSE"
          /\ fe_msg[j].cmd = "VFE_MSG_KCTL_SET"
          /\ \A id \in {i, j} :
                /\ fe_msg[id].handled = 1
                /\ fe_msg[id].place = "freed"
                /\ fe_msg[id].frees = 1
    /\ expired_msg_list = <<>>
    /\ not_tx_avail = <<>>

\* C37: in every interleaving of the backend's position update in
\* interrupt context with Close of the same session, the update stores
\* hw_ptr and be_irq_cnt through no Position Descriptor mapping that Close
\* has released and reads no session entry that Close has removed and
\* freed.
C37_NoUpdateAfterClose ==
    \A f \in irq_close.faults : f[2] \notin {"released_write", "freed_read"}

\* C38: for every buffer of the frontend the backend pushed a notification
\* into, the bytes copied are no more than the buffer's length, the
\* buffer's descriptor chain was released exactly once, and nothing was
\* copied into a buffer shorter than the message.
C38_PushWithinBuffer ==
    \A i \in 1..Len(not_rx_used) :
        LET e == not_rx_used[i]
        IN  /\ e.copied <= e.iov_len
            /\ e.relchains = 1
            /\ e.iov_len < SizeofKctlNoti => e.copied = 0

\* C39: the frontend's pool of inbox buffers is conserved: the buffers on
\* the push channel (posted, or filled and not yet drained) are always as
\* many as the frontend has posted at start-up, and every iteration of the
\* drain loop, for a notification of a known or of an unknown type, takes
\* one filled buffer and posts exactly one buffer, of full size, back.
C39_InboxPoolConserved ==
    /\ [](Len(not_rx_avail) + Len(not_rx_used) = MaxInbox - inbox_free)
    /\ [][Len(inbox_seen') = Len(inbox_seen) + 1
          => /\ not_rx_used' = Tail(not_rx_used)
             /\ not_rx_avail' = Append(not_rx_avail, InboxMsgSize)
             /\ inbox_free' = inbox_free]_vars

\* C39 witness: of the notifications pushed only the first was a control
\* notification, the others were of an unknown type; the frontend has
\* drained them all and all its buffers are posted again.
C39_Witness ==
    /\ noti_sent = MaxNotis
    /\ send_result.id = 1
    /\ Len(inbox_seen) = MaxNotis
    /\ not_rx_used = <<>>
    /\ Len(not_rx_avail) = MaxInbox
    /\ inbox_free = 0

\* C40: the backend copies no resource bytes into a destination region the
\* frontend has freed: once every attempt of a Descriptor request has
\* timed out and the frontend released the region, handling any of those
\* requests late copies nothing into it.
C40_NoCopyAfterRelease ==
    desc_retry.late_copies = {}

====
